---------------------------- MODULE Spec2Model ----------------------------
(***************************************************************************)
(* SeerrBridge settings editor: the dual-format TORRENT_FILTER_REGEX value *)
(* (src/lib/env-utils.ts), the priority list editor (RegexPriorityEditor)  *)
(* and the form that owns it (EnvConfig), both in                          *)
(* src/components/regex-priority-editor.tsx.                               *)
(*                                                                         *)
(* A JavaScript string is a sequence of one-character strings, so that     *)
(* trim, JSON.stringify, JSON.parse and new RegExp work on characters.     *)
(* List positions are 0-based as in the source; TLA+ sequences are         *)
(* 1-based, so position i of the source is element i + 1.                  *)
(***************************************************************************)
EXTENDS Integers, Sequences, FiniteSets, TLC

(***************************************************************************)
(* Characters and strings                                                  *)
(***************************************************************************)

QUOTE == "\""

BACKSLASH == "\\"

\* undefined / null: a value that is no string (its element is no character)
Null == <<"undefined">>

\* String.prototype.trim strips white space; the model's white space is " "
WhiteSpace == {" "}

Digits == {"0", "1", "2", "3", "4", "5", "6", "7", "8", "9"}

RECURSIVE TrimStart(_)
TrimStart(s) ==
    IF s # <<>> /\ Head(s) \in WhiteSpace THEN TrimStart(Tail(s)) ELSE s

RECURSIVE TrimEnd(_)
TrimEnd(s) ==
    IF s # <<>> /\ s[Len(s)] \in WhiteSpace
    THEN TrimEnd(SubSeq(s, 1, Len(s) - 1))
    ELSE s

\* a trim that strips the start only
TrimStartOnly(s) == TrimStart(s)

Trim(s) == TrimEnd(TrimStart(s))

\* !value || value.trim() === ''
IsBlank(value) == value = Null \/ value = <<>> \/ Trim(value) = <<>>

StartsWith(s, c) == s # <<>> /\ s[1] = c

EndsWith(s, c) == s # <<>> /\ s[Len(s)] = c

(***************************************************************************)
(* JSON.stringify of an array of strings                                   *)
(***************************************************************************)

\* a string body written without escaping
JSONEscapeNone(s) == s

RECURSIVE JSONEscape(_)
JSONEscape(s) ==
    IF s = <<>> THEN <<>>
    ELSE (IF Head(s) \in {QUOTE, BACKSLASH}
          THEN <<BACKSLASH, Head(s)>>
          ELSE <<Head(s)>>) \o JSONEscape(Tail(s))

JSONQuote(s) == <<QUOTE>> \o JSONEscape(s) \o <<QUOTE>>

RECURSIVE JSONJoin(_)
JSONJoin(patterns) ==
    IF patterns = <<>> THEN <<>>
    ELSE IF Len(patterns) = 1 THEN JSONQuote(patterns[1])
    ELSE JSONQuote(patterns[1]) \o <<",">> \o JSONJoin(Tail(patterns))

JSONStringify(patterns) == <<"[">> \o JSONJoin(patterns) \o <<"]">>

(***************************************************************************)
(* JSON.parse: a recursive-descent reader of the JSON grammar over the     *)
(* model's characters (arrays, strings, numbers, true/false/null).  Its    *)
(* inputs hold no "{" and no backslash-u escape.  A value is read as       *)
(* [ok, pos, kind, str, items]: pos is the position after the value, str   *)
(* the decoded text of a string, items the elements of an array, each      *)
(* [kind, str].                                                            *)
(***************************************************************************)

JFail == [ok |-> FALSE, pos |-> 0, kind |-> "none", str |-> <<>>, items |-> <<>>]

JVal(p, k, s, it) == [ok |-> TRUE, pos |-> p, kind |-> k, str |-> s, items |-> it]

At(s, i) == IF i >= 1 /\ i <= Len(s) THEN s[i] ELSE "EOF"

RECURSIVE SkipWs(_, _)
SkipWs(s, i) == IF At(s, i) \in WhiteSpace THEN SkipWs(s, i + 1) ELSE i

RECURSIVE SkipDigits(_, _)
SkipDigits(s, i) == IF At(s, i) \in Digits THEN SkipDigits(s, i + 1) ELSE i

\* the single-character escapes of a JSON string and what they decode to
JSONEscapes ==
    [c \in {QUOTE, BACKSLASH, "/", "b", "f", "n", "r", "t"} |->
        CASE c = "b" -> "<BS>" [] c = "f" -> "<FF>" [] c = "n" -> "<LF>"
          [] c = "r" -> "<CR>" [] c = "t" -> "<TAB>" [] OTHER -> c]

RECURSIVE JSONString(_, _, _)
\* s[i] is the first character after the opening quote
JSONString(s, i, acc) ==
    LET c == At(s, i) IN
    IF c = "EOF" THEN JFail
    ELSE IF c = QUOTE THEN JVal(i + 1, "string", acc, <<>>)
    ELSE IF c = BACKSLASH
         THEN IF At(s, i + 1) \in DOMAIN JSONEscapes
              THEN JSONString(s, i + 2, Append(acc, JSONEscapes[At(s, i + 1)]))
              ELSE JFail
    ELSE JSONString(s, i + 1, Append(acc, c))

\* -? (0 | [1-9][0-9]*) (. [0-9]+)? ([eE] [+-]? [0-9]+)?
JSONNumber(s, i) ==
    LET i0 == IF At(s, i) = "-" THEN i + 1 ELSE i
        i1 == IF At(s, i0) = "0" THEN i0 + 1 ELSE SkipDigits(s, i0)
        i2 == IF At(s, i1) = "." THEN SkipDigits(s, i1 + 1) ELSE i1
        e0 == IF At(s, i2 + 1) \in {"+", "-"} THEN i2 + 2 ELSE i2 + 1
        i3 == IF At(s, i2) \in {"e", "E"} THEN SkipDigits(s, e0) ELSE i2
    IN  IF i1 = i0 THEN JFail
        ELSE IF At(s, i1) = "." /\ i2 = i1 + 1 THEN JFail
        ELSE IF At(s, i2) \in {"e", "E"} /\ i3 = e0 THEN JFail
        ELSE JVal(i3, "number", <<>>, <<>>)

JSONLiteral(s, i, word) ==
    IF i + Len(word) - 1 <= Len(s) /\ SubSeq(s, i, i + Len(word) - 1) = word
    THEN JVal(i + Len(word), "literal", <<>>, <<>>)
    ELSE JFail

RECURSIVE JSONValue(_, _)
RECURSIVE JSONElements(_, _, _)

\* s[i] is the first character of an element; acc holds the elements read
JSONElements(s, i, acc) ==
    LET v == JSONValue(s, SkipWs(s, i))
        j == SkipWs(s, v.pos)
        items == Append(acc, [kind |-> v.kind, str |-> v.str])
    IN  IF ~v.ok THEN JFail
        ELSE IF At(s, j) = "," THEN JSONElements(s, j + 1, items)
        ELSE IF At(s, j) = "]" THEN JVal(j + 1, "array", <<>>, items)
        ELSE JFail

JSONValue(s, i) ==
    LET c == At(s, i) IN
    IF c = "[" THEN (IF At(s, SkipWs(s, i + 1)) = "]"
                     THEN JVal(SkipWs(s, i + 1) + 1, "array", <<>>, <<>>)
                     ELSE JSONElements(s, i + 1, <<>>))
    ELSE IF c = QUOTE THEN JSONString(s, i + 1, <<>>)
    ELSE IF c = "-" \/ c \in Digits THEN JSONNumber(s, i)
    ELSE IF c = "t" THEN JSONLiteral(s, i, <<"t", "r", "u", "e">>)
    ELSE IF c = "f" THEN JSONLiteral(s, i, <<"f", "a", "l", "s", "e">>)
    ELSE IF c = "n" THEN JSONLiteral(s, i, <<"n", "u", "l", "l">>)
    ELSE JFail

\* JSON.parse(text): ok is FALSE where JSON.parse throws
JSONParse(text) ==
    LET v == JSONValue(text, SkipWs(text, 1)) IN
    IF v.ok /\ SkipWs(text, v.pos) = Len(text) + 1 THEN v ELSE JFail

(***************************************************************************)
(* new RegExp(pattern): whether the pattern compiles.  The reader follows  *)
(* the ECMAScript pattern grammar (without the u flag) for the characters  *)
(* the model's patterns are made of: literals, ".", "*", "|", groups,      *)
(* character classes with ranges, and backslash escapes.  The model's      *)
(* patterns hold none of ^ $ + ? { }.                                      *)
(***************************************************************************)

\* the printable ASCII characters in code order, from " " (32) to "~" (126)
Ascii ==
    <<" ", "!", "\"", "#", "$", "%", "&", "'", "(", ")", "*", "+",
       ",", "-", ".", "/", "0", "1", "2", "3", "4", "5", "6", "7",
       "8", "9", ":", ";", "<", "=", ">", "?", "@", "A", "B", "C",
       "D", "E", "F", "G", "H", "I", "J", "K", "L", "M", "N", "O",
       "P", "Q", "R", "S", "T", "U", "V", "W", "X", "Y", "Z", "[",
       "\\", "]", "^", "_", "<grave>", "a", "b", "c", "d", "e", "f", "g",
       "h", "i", "j", "k", "l", "m", "n", "o", "p", "q", "r", "s",
       "t", "u", "v", "w", "x", "y", "z", "{", "|", "}", "~">>

CharCode(c) == 31 + CHOOSE i \in 1..Len(Ascii) : Ascii[i] = c

RECURSIVE ClassEnd(_, _)
\* s[i] is inside a character class: the position of the "]" that closes
\* it, or 0 when the class is unterminated or a range is out of order
ClassEnd(s, i) ==
    LET c == At(s, i) IN
    IF c = "EOF" THEN 0
    ELSE IF c = "]" THEN i
    ELSE IF c = BACKSLASH
         THEN (IF At(s, i + 1) = "EOF" THEN 0 ELSE ClassEnd(s, i + 2))
    ELSE IF At(s, i + 1) = "-" /\ At(s, i + 2) \notin {"]", "EOF", BACKSLASH}
         THEN (IF CharCode(c) <= CharCode(At(s, i + 2))
               THEN ClassEnd(s, i + 3)
               ELSE 0)
    ELSE ClassEnd(s, i + 1)

RECURSIVE RegExpScan(_, _, _, _)
\* depth: the groups open at s[i]; atom: whether a quantifier may follow
RegExpScan(s, i, depth, atom) ==
    LET c == At(s, i) IN
    IF c = "EOF" THEN depth = 0
    ELSE IF c = BACKSLASH
         THEN At(s, i + 1) # "EOF"
              /\ RegExpScan(s, i + 2, depth, At(s, i + 1) \notin {"b", "B"})
    ELSE IF c = "(" THEN RegExpScan(s, i + 1, depth + 1, FALSE)
    ELSE IF c = ")" THEN depth > 0 /\ RegExpScan(s, i + 1, depth - 1, TRUE)
    ELSE IF c = "|" THEN RegExpScan(s, i + 1, depth, FALSE)
    ELSE IF c = "*" THEN atom /\ RegExpScan(s, i + 1, depth, FALSE)
    ELSE IF c = "[" THEN ClassEnd(s, i + 1) # 0
                         /\ RegExpScan(s, ClassEnd(s, i + 1) + 1, depth, TRUE)
    ELSE RegExpScan(s, i + 1, depth, TRUE)

\* TRUE where new RegExp(pattern) returns, FALSE where it throws
RegExpCompiles(pattern) == RegExpScan(pattern, 1, 0, FALSE)

(***************************************************************************)
(* Format model: src/lib/env-utils.ts                                      *)
(***************************************************************************)

\* the error field of a ParsedRegexValue that has none
NoError == "undefined"

\* a validator that accepts every pattern that is not blank
validateRegexPatternNonBlank(pattern) == ~IsBlank(pattern)

\* a validator that tests for the empty text without trimming
validateRegexPatternUntrimmed(pattern) ==
    IF pattern = Null \/ pattern = <<>> THEN FALSE ELSE RegExpCompiles(pattern)

validateRegexPattern(pattern) ==
    IF IsBlank(pattern) THEN FALSE ELSE RegExpCompiles(pattern)

\* a detector that takes a JSON array for an array only if its elements are
\* all strings
detectRegexFormatStringsOnly(value) ==
    IF IsBlank(value) THEN "empty"
    ELSE LET trimmed == Trim(value) IN
         IF StartsWith(trimmed, "[") /\ EndsWith(trimmed, "]")
            /\ JSONParse(trimmed).ok /\ JSONParse(trimmed).kind = "array"
            /\ \A k \in 1..Len(JSONParse(trimmed).items) :
                   JSONParse(trimmed).items[k].kind = "string"
         THEN "array" ELSE "string"

\* a detector that lets the error of JSON.parse escape
detectRegexFormatThrows(value) ==
    IF IsBlank(value) THEN "empty"
    ELSE LET trimmed == Trim(value) IN
         IF StartsWith(trimmed, "[") /\ EndsWith(trimmed, "]")
         THEN IF JSONParse(trimmed).ok
              THEN IF JSONParse(trimmed).kind = "array" THEN "array" ELSE "string"
              ELSE "SyntaxError"
         ELSE "string"

\* a detector that tests the brackets on the value as given
detectRegexFormatUntrimmed(value) ==
    IF IsBlank(value) THEN "empty"
    ELSE IF StartsWith(value, "[") /\ EndsWith(value, "]")
            /\ JSONParse(value).ok /\ JSONParse(value).kind = "array"
         THEN "array" ELSE "string"

detectRegexFormat(value) ==
    IF IsBlank(value) THEN "empty"
    ELSE LET trimmed == Trim(value) IN
         IF StartsWith(trimmed, "[") /\ EndsWith(trimmed, "]")
            /\ JSONParse(trimmed).ok /\ JSONParse(trimmed).kind = "array"
         THEN "array"
         ELSE "string"

\* parsed.every(item => typeof item === 'string')
\* an element test that accepts every element
AllStringsUnchecked(items) == TRUE

AllStrings(items) == \A k \in 1..Len(items) : items[k].kind = "string"

parseRegexValue(value) ==
    IF IsBlank(value)
    THEN [format |-> "empty", array |-> <<>>, raw |-> <<>>,
          isValid |-> TRUE, error |-> NoError]
    ELSE LET trimmed == Trim(value)
             format == detectRegexFormat(trimmed)
             parsed == JSONParse(trimmed)
         IN  IF format = "array"
             THEN IF ~parsed.ok
                  THEN [format |-> "array", array |-> <<>>, raw |-> trimmed,
                        isValid |-> FALSE, error |-> "Invalid JSON format"]
                  ELSE IF parsed.kind = "array" /\ AllStrings(parsed.items)
                  THEN [format |-> "array",
                        array |-> [k \in 1..Len(parsed.items) |-> parsed.items[k].str],
                        raw |-> trimmed, isValid |-> TRUE, error |-> NoError]
                  ELSE [format |-> "array", array |-> <<>>, raw |-> trimmed,
                        isValid |-> FALSE,
                        error |-> "Array contains non-string values"]
             ELSE [format |-> "string", array |-> <<trimmed>>, raw |-> trimmed,
                   isValid |-> validateRegexPattern(trimmed), error |-> NoError]

\* a conversion that keeps the value as it is
stringToRegexArrayUntrimmed(value) == IF IsBlank(value) THEN <<>> ELSE <<value>>

stringToRegexArray(value) ==
    IF IsBlank(value) THEN <<>> ELSE <<Trim(value)>>

\* regexArrayToString without the case of one pattern: a one-element
\* sequence becomes a JSON array literal like the longer ones
regexArrayToStringNoCollapse(patterns) ==
    IF Len(patterns) = 0 THEN <<>> ELSE JSONStringify(patterns)

\* a serializer that trims the only element of a one-element sequence
regexArrayToStringTrims(patterns) ==
    IF Len(patterns) = 0 THEN <<>>
    ELSE IF Len(patterns) = 1 THEN Trim(patterns[1])
    ELSE JSONStringify(patterns)

regexArrayToString(patterns) ==
    IF Len(patterns) = 0 THEN <<>>
    ELSE IF Len(patterns) = 1 THEN patterns[1]
    ELSE JSONStringify(patterns)

\* a message of validateRegexArray: `Pattern ${i + 1}: ${text}`, with the
\* trimmed pattern a duplicate message quotes (Null in the other messages)
Message(i, text, pattern) == [number |-> i + 1, text |-> text, pattern |-> pattern]

RECURSIVE validateEach(_, _, _)
\* the first loop of validateRegexArray from position i on
validateEach(patterns, i, errors) ==
    IF i >= Len(patterns) THEN errors
    ELSE LET pattern == patterns[i + 1] IN
         validateEach(patterns, i + 1,
             IF IsBlank(pattern)
             THEN Append(errors, Message(i, "Empty pattern", Null))
             ELSE IF ~validateRegexPattern(pattern)
             THEN Append(errors, Message(i, "Invalid regex syntax", Null))
             ELSE errors)

RECURSIVE duplicatesFromUntrimmed(_, _, _, _)
\* a second loop that compares the patterns as they are
duplicatesFromUntrimmed(patterns, i, seen, errors) ==
    IF i >= Len(patterns) THEN errors
    ELSE LET pattern == patterns[i + 1] IN
         duplicatesFromUntrimmed(patterns, i + 1, seen \cup {pattern},
             IF pattern # <<>> /\ pattern \in seen
             THEN Append(errors, Message(i, "Duplicate pattern", pattern))
             ELSE errors)

RECURSIVE duplicatesFromKeyed(_, _, _, _)
\* a second loop that replaces the message a position already has
duplicatesFromKeyed(patterns, i, seen, errors) ==
    IF i >= Len(patterns) THEN errors
    ELSE LET pattern == Trim(patterns[i + 1]) IN
         duplicatesFromKeyed(patterns, i + 1, seen \cup {pattern},
             IF pattern # <<>> /\ pattern \in seen
             THEN Append(SelectSeq(errors, LAMBDA e : e.number # i + 1),
                         Message(i, "Duplicate pattern", pattern))
             ELSE errors)

RECURSIVE duplicatesFrom(_, _, _, _)
\* the second loop of validateRegexArray from position i on, with the set seen
duplicatesFrom(patterns, i, seen, errors) ==
    IF i >= Len(patterns) THEN errors
    ELSE LET pattern == Trim(patterns[i + 1]) IN
         duplicatesFrom(patterns, i + 1, seen \cup {pattern},
             IF pattern # <<>> /\ pattern \in seen
             THEN Append(errors, Message(i, "Duplicate pattern", pattern))
             ELSE errors)

\* a validator that takes its verdict before the duplicate scan
validateRegexArrayEarlyVerdict(patterns) ==
    LET errors == duplicatesFrom(patterns, 0, {}, validateEach(patterns, 0, <<>>))
    IN  [isValid |-> Len(validateEach(patterns, 0, <<>>)) = 0, errors |-> errors]

validateRegexArray(patterns) ==
    LET errors == duplicatesFrom(patterns, 0, {}, validateEach(patterns, 0, <<>>))
    IN  [isValid |-> Len(errors) = 0, errors |-> errors]

getDefaultRegexPatterns ==
    << <<"1", "0", "8", "0", "p", ".", "*", "B", "l", "u", "R", "a", "y", ".", "*", "x", "2", "6", "4">>,
       <<"7", "2", "0", "p", ".", "*", "W", "E", "B", "-", "D", "L">>,
       <<"(", "7", "2", "0", "p", "|", "1", "0", "8", "0", "p", ")", ".", "*">> >>

(***************************************************************************)
(* Inputs of the model                                                     *)
(***************************************************************************)

\* the longest sequence the editor is grown to by append and insert
MaxPatterns == 3

\* the texts typed into an input: a pattern that does not compile
EditTexts == { <<"(">> }

\* the presets /api/regex-presets returns: a default preset whose pattern is
\* the second default pattern and a custom preset whose pattern is empty
ServerPresets ==
    << [id |-> "default-hd", name |-> "HD",
        pattern |-> getDefaultRegexPatterns[2], isDefault |-> TRUE],
       [id |-> "custom-1", name |-> "Blank", pattern |-> <<>>, isDefault |-> FALSE] >>

\* the names typed into the preset form: white space only, and a name
NameTexts == {" ", "Mine"}

\* name.trim(), on the names of the model
TrimName(name) == IF name = " " THEN "" ELSE name

\* the id savePreset makes for a new preset: custom-${Date.now()}
NewId == "custom-new"

\* the custom presets /api/regex-presets may hold after a save: the loaded
\* one, the loaded one edited, a new one
CustomPresets ==
    { ServerPresets[2],
      [id |-> "custom-1", name |-> "Mine", pattern |-> <<"(">>, isDefault |-> FALSE],
      [id |-> NewId, name |-> "Mine", pattern |-> <<"(">>, isDefault |-> FALSE] }

\* the lists /api/regex-presets answers a save or a delete with: the default
\* preset, then at most one custom preset under each id
PresetLists ==
    {<<ServerPresets[1]>>}
        \cup {<<ServerPresets[1], c>> : c \in CustomPresets}
        \cup {<<ServerPresets[1], c, d>> :
                  c \in {x \in CustomPresets : x.id = "custom-1"},
                  d \in {x \in CustomPresets : x.id = NewId}}

\* the values /api/env returns under TORRENT_FILTER_REGEX: no such key, the
\* empty string, a bare pattern that does not compile with white space
\* before it, and an array of two patterns that are equal once trimmed
StoredValues ==
    { Null,
      <<>>,
      <<" ", "(">>,
      <<"[", "\"", "(", "\"", ",", "\"", " ", "(", "\"", "]">> }

\* the values of another key of the mapping
OtherValues == {"x"}

ServerData == [regex : StoredValues, other : OtherValues]

\* the result of a lookup that finds no preset
NoName == "null"

RECURSIVE findMatchingPresetTrimmed(_, _)
\* a lookup that compares the trimmed texts
findMatchingPresetTrimmed(pattern, presets) ==
    IF presets = <<>> THEN NoName
    ELSE IF Trim(Head(presets).pattern) = Trim(pattern) THEN Head(presets).name
    ELSE findMatchingPresetTrimmed(pattern, Tail(presets))

RECURSIVE findMatchingPreset(_, _)
\* presets is the mapping as Object.entries lists it: [name, pattern] entries
\* in the order of insertion
findMatchingPreset(pattern, presets) ==
    IF presets = <<>> THEN NoName
    ELSE IF Head(presets).pattern = pattern THEN Head(presets).name
    ELSE findMatchingPreset(pattern, Tail(presets))

getMatchingPresetName(patterns, presets) ==
    IF Len(patterns) = 1 THEN findMatchingPreset(patterns[1], presets)
    ELSE NoName

\* the preset mappings the lookups are applied to: none, two names for one
\* pattern, two patterns that are equal once trimmed, and a bracketed one
FormatPresets ==
    { <<>>,
      << [name |-> "A", pattern |-> <<"a">>], [name |-> "B", pattern |-> <<"a">>] >>,
      << [name |-> "A", pattern |-> <<"a", " ">>], [name |-> "B", pattern |-> <<"a">>] >>,
      << [name |-> "A", pattern |-> <<"[", "a", "]">>] >> }

\* the longest sequence the functions of the format model are applied to
MaxSeqLen == 3

\* the patterns of those sequences: empty, blank, plain, with a trailing
\* space, a JSON array literal, a bracketed text that is no JSON, and a
\* text JSON.stringify has to escape
FormatPatterns ==
    { <<>>,
      <<" ">>,
      <<"a">>,
      <<"a", " ">>,
      <<"[", "\"", "a", "\"", "]">>,
      <<"[", "a", "]">>,
      <<"\"", "\\">> }

RECURSIVE SeqsOfLen(_, _)
SeqsOfLen(S, n) ==
    IF n = 0 THEN { <<>> }
    ELSE {Append(p, x) : p \in SeqsOfLen(S, n - 1), x \in S}

FormatSequences == UNION {SeqsOfLen(FormatPatterns, n) : n \in 0..MaxSeqLen}

\* the stored values the functions of the format model are applied to
FormatValues ==
    { Null,
      <<>>,
      <<" ">>,
      <<" ", "a", " ">>,
      <<"(">>,
      <<"[", "\"", "a", "\"", ",", " ", "\"", "b", "\"", "]">>,
      <<" ", "[", "]">>,
      <<"[", "1", "]">>,
      <<"[", "a", "]">>,
      <<"[", "\"", "a", "\"", ",", "]">> }

(***************************************************************************)
(* State                                                                   *)
(***************************************************************************)

VARIABLES
    envVars,        \* EnvConfig: the variable mapping held locally
    loading,        \* EnvConfig: the initial fetch has not ended
    error,          \* EnvConfig: the error message, or NoMsg
    regexFormat,    \* EnvConfig: 'string' | 'array' | 'empty'
    regexArray,     \* EnvConfig: the working sequence (the editor's patterns prop)
    regexPresets,   \* EnvConfig: the presets loaded
    editingIndex,   \* RegexPriorityEditor: the position under edit, or null
    editingValue,   \* RegexPriorityEditor: the working text
    errors,         \* RegexPriorityEditor: position -> message
    notified,       \* the sequences onPatternsChange was called with in the last step
    lastOp,         \* the handler the last step ran
    saving,         \* EnvConfig: a submit is under way (the editor's isLoading)
    success,        \* EnvConfig: the success message, or NoMsg
    submitPc,       \* handleSubmit: "idle", awaiting the "save", awaiting the "reload"
    request,        \* the body of the POST /api/env issued in the last step, or NoRequest
    fvalue,         \* format model: the stored value a function is applied to
    fpatterns,      \* format model: the sequence a function is applied to
    fcall,          \* format model: the last call and what it returned
    timeUntilRefresh,   \* EnvConfig: the countdown of the auto-refresh, in seconds
    refreshIntervalRef, \* EnvConfig: the interval of the countdown, "running" or "cleared"
    refreshCalls,   \* the calls of silentRefreshEnvVars the interval's last callback made
    showAddPreset,  \* EnvConfig: the preset form is open
    editingPreset,  \* EnvConfig: the preset under edit, or NoPreset
    newPreset,      \* EnvConfig: the name and the pattern typed into the preset form
    presetCalls     \* the requests to /api/regex-presets that await their response

orchVars == <<envVars, loading, error, regexFormat, regexArray, regexPresets>>

editorVars == <<editingIndex, editingValue, errors>>

submitVars == <<saving, success, submitPc, request>>

formatVars == <<fvalue, fpatterns, fcall>>

timerVars == <<timeUntilRefresh, refreshIntervalRef, refreshCalls>>

presetVars == <<showAddPreset, editingPreset, newPreset, presetCalls>>

vars == <<envVars, loading, error, regexFormat, regexArray, regexPresets,
          editingIndex, editingValue, errors, notified, lastOp,
          saving, success, submitPc, request, fvalue, fpatterns, fcall,
          timeUntilRefresh, refreshIntervalRef, refreshCalls,
          showAddPreset, editingPreset, newPreset, presetCalls>>

\* a message state that holds no message (null)
NoMsg == "null"

\* editingIndex when no position is under edit (null)
null == -1

NoErrors == [i \in {} |-> NoMsg]

\* no POST /api/env was issued
NoRequest == [regex |-> Null, other |-> "none"]

\* no function of the format model was called
NoCall == [op |-> "none"]

\* the seconds between two background refreshes: useState(30), return 30
RefreshSeconds == 30

\* editingPreset when no preset is under edit (null)
NoPreset == [id |-> "null", name |-> "", pattern |-> <<>>, isDefault |-> FALSE]

\* the preset form when nothing is typed: { name: '', pattern: '' }
BlankPreset == [name |-> "", pattern |-> <<>>]

\* the form is rendered: neither the loading nor the error screen
FormShown == ~loading /\ error = NoMsg

\* envVarEntries holds the regex key, so its row is rendered
RegexRowShown == FormShown /\ envVars.regex # Null

\* the row renders RegexPriorityEditor: the editor instance is live
EditorMounted == RegexRowShown /\ regexFormat = "array"

\* presets.reduce((acc, preset) => { acc[preset.name] = preset.pattern ... })
PresetMap ==
    [n \in {regexPresets[k].name : k \in 1..Len(regexPresets)} |->
        LET last == CHOOSE k \in 1..Len(regexPresets) :
                        /\ regexPresets[k].name = n
                        /\ \A j \in (k + 1)..Len(regexPresets) : regexPresets[j].name # n
        IN  regexPresets[last].pattern]

(***************************************************************************)
(* RegexPriorityEditor: validation                                         *)
(***************************************************************************)

validatePattern(pattern) ==
    IF IsBlank(pattern) THEN "Pattern cannot be empty"
    ELSE IF RegExpCompiles(pattern) THEN NoMsg
    ELSE "Invalid regex syntax"

RECURSIVE checkDuplicatesFrom(_, _, _, _)
\* the forEach of checkDuplicates from position index on, with the set seen
checkDuplicatesFrom(newPatterns, index, seen, duplicateErrors) ==
    IF index >= Len(newPatterns) THEN duplicateErrors
    ELSE LET trimmed == Trim(newPatterns[index + 1]) IN
         checkDuplicatesFrom(newPatterns, index + 1, seen \cup {trimmed},
             IF trimmed # <<>> /\ trimmed \in seen
             THEN duplicateErrors \cup {index}
             ELSE duplicateErrors)

\* the positions checkDuplicates gives the message "Duplicate pattern"
checkDuplicates(newPatterns) == checkDuplicatesFrom(newPatterns, 0, {}, {})

\* a merge in the other order: the per-pattern messages assigned over the
\* duplicate messages
newErrorsOfSyntaxLast(newPatterns) ==
    LET invalid == {i \in 0..(Len(newPatterns) - 1) :
                        validatePattern(newPatterns[i + 1]) # NoMsg}
        dups == checkDuplicates(newPatterns)
    IN  [i \in invalid \cup dups |->
            IF i \in invalid THEN validatePattern(newPatterns[i + 1])
            ELSE "Duplicate pattern"]

\* the mapping updatePatterns hands to setErrors: the per-pattern messages,
\* then Object.assign of the duplicate messages over them
newErrorsOf(newPatterns) ==
    LET invalid == {i \in 0..(Len(newPatterns) - 1) :
                        validatePattern(newPatterns[i + 1]) # NoMsg}
        dups == checkDuplicates(newPatterns)
    IN  [i \in invalid \cup dups |->
            IF i \in dups THEN "Duplicate pattern"
            ELSE validatePattern(newPatterns[i + 1])]

\* updatePatterns without the call of onPatternsChange: the errors are set
\* and the owner is not told
updatePatternsSilent(newPatterns) ==
    /\ errors' = newErrorsOf(newPatterns)
    /\ regexArray' = regexArray
    /\ notified' = <<>>

\* updatePatterns(newPatterns): setErrors(newErrors); onPatternsChange(newPatterns),
\* where onPatternsChange is EnvConfig's setRegexArray
updatePatterns(newPatterns) ==
    /\ regexArray' = newPatterns
    /\ notified' = <<newPatterns>>
    /\ errors' = newErrorsOf(newPatterns)

(***************************************************************************)
(* RegexPriorityEditor: the handlers.  Each action is one click or one     *)
(* keystroke on a control the component renders in the current state.      *)
(***************************************************************************)

Positions == 0..(Len(regexArray) - 1)

\* the row at position index shows its pattern and its buttons (it is not
\* the row under edit)
RowShown(index) == EditorMounted /\ index \in Positions /\ editingIndex # index

\* the row under edit shows the input with Save and Cancel
InputShown == EditorMounted /\ editingIndex \in Positions

\* SetAt with the position counted from 1: the write lands one position early
SetAtShifted(patterns, index, value) ==
    [k \in 1..Len(patterns) |-> IF k = index THEN value ELSE patterns[k]]

\* newPatterns[index] = value on a copy of patterns; writing past the end
\* leaves the positions between undefined
SetAt(patterns, index, value) ==
    [k \in 1..(IF index + 1 > Len(patterns) THEN index + 1 ELSE Len(patterns)) |->
        IF k = index + 1 THEN value
        ELSE IF k <= Len(patterns) THEN patterns[k]
        ELSE Null]

\* a swap written as two assignments without a temporary: a[i] = a[j];
\* a[j] = a[i] leaves a[j] at both positions
SwapCopies(patterns, i, j) ==
    [k \in 1..Len(patterns) |-> IF k = i + 1 THEN patterns[j + 1] ELSE patterns[k]]

\* [a[i], a[j]] = [a[j], a[i]] on a copy of patterns
Swap(patterns, i, j) ==
    [k \in 1..Len(patterns) |->
        IF k = i + 1 THEN patterns[j + 1]
        ELSE IF k = j + 1 THEN patterns[i + 1]
        ELSE patterns[k]]

\* a filter that drops the last element whatever the index
WithoutLast(patterns, index) == SubSeq(patterns, 1, Len(patterns) - 1)

\* delete patterns[index]: the position is emptied and the length kept
WithoutHole(patterns, index) ==
    [k \in 1..Len(patterns) |-> IF k = index + 1 THEN Null ELSE patterns[k]]

\* patterns.filter((_, i) => i !== index)
Without(patterns, index) ==
    [k \in 1..(Len(patterns) - 1) |->
        IF k < index + 1 THEN patterns[k] ELSE patterns[k + 1]]

\* a splice at afterIndex: the value lands before the position, not after it
SpliceBefore(patterns, afterIndex, value) ==
    [k \in 1..(Len(patterns) + 1) |->
        IF k <= afterIndex THEN patterns[k]
        ELSE IF k = afterIndex + 1 THEN value
        ELSE patterns[k - 1]]

\* newPatterns.splice(afterIndex + 1, 0, value) on a copy of patterns
SpliceAfter(patterns, afterIndex, value) ==
    [k \in 1..(Len(patterns) + 1) |->
        IF k <= afterIndex + 1 THEN patterns[k]
        ELSE IF k = afterIndex + 2 THEN value
        ELSE patterns[k - 1]]

handleEdit(index) ==
    /\ lastOp' = "handleEdit"
    /\ UNCHANGED <<submitVars, formatVars, timerVars, presetVars>>
    /\ RowShown(index)
    /\ editingIndex' = index
    /\ editingValue' = regexArray[index + 1]
    /\ notified' = <<>>
    /\ UNCHANGED <<orchVars, errors>>

\* onChange of the input: setEditingValue(e.target.value)
setEditingValue(value) ==
    /\ lastOp' = "setEditingValue"
    /\ UNCHANGED <<submitVars, formatVars, timerVars, presetVars>>
    /\ InputShown
    /\ editingValue' = value
    /\ notified' = <<>>
    /\ UNCHANGED <<orchVars, editingIndex, errors>>

handleSaveEdit ==
    /\ lastOp' = "handleSaveEdit"
    /\ UNCHANGED <<submitVars, formatVars, timerVars, presetVars>>
    /\ InputShown
    /\ IF editingIndex # null
       THEN /\ updatePatterns(SetAt(regexArray, editingIndex, editingValue))
            /\ editingIndex' = null
            /\ editingValue' = <<>>
       ELSE UNCHANGED <<regexArray, editorVars, notified>>
    /\ UNCHANGED <<envVars, loading, error, regexFormat, regexPresets>>

\* a Cancel button wired to the commit: handleCancelEdit with the body of
\* handleSaveEdit
handleCancelEditCommits ==
    /\ lastOp' = "handleCancelEdit"
    /\ UNCHANGED <<submitVars, formatVars, timerVars, presetVars>>
    /\ InputShown
    /\ updatePatterns(SetAt(regexArray, editingIndex, editingValue))
    /\ editingIndex' = null
    /\ editingValue' = <<>>
    /\ UNCHANGED <<envVars, loading, error, regexFormat, regexPresets>>

handleCancelEdit ==
    /\ lastOp' = "handleCancelEdit"
    /\ UNCHANGED <<submitVars, formatVars, timerVars, presetVars>>
    /\ InputShown
    /\ editingIndex' = null
    /\ editingValue' = <<>>
    /\ notified' = <<>>
    /\ UNCHANGED <<orchVars, errors>>

\* a move up that takes the pattern to the head of the sequence
handleMoveUpToTop(index) ==
    /\ lastOp' = "handleMoveUp"
    /\ UNCHANGED <<submitVars, formatVars, timerVars, presetVars>>
    /\ RowShown(index)
    /\ ~saving
    /\ IF index > 0
       THEN updatePatterns(Swap(regexArray, index, 0))
       ELSE notified' = <<>> /\ UNCHANGED <<regexArray, errors>>
    /\ UNCHANGED <<envVars, loading, error, regexFormat, regexPresets,
                   editingIndex, editingValue>>

\* a move up without the guard on the index: at index 0 the sequence is
\* validated and handed to the owner as it is
handleMoveUpUnguarded(index) ==
    /\ lastOp' = "handleMoveUp"
    /\ UNCHANGED <<submitVars, formatVars, timerVars, presetVars>>
    /\ RowShown(index)
    /\ ~saving
    /\ IF index > 0
       THEN updatePatterns(Swap(regexArray, index, index - 1))
       ELSE updatePatterns(regexArray)
    /\ UNCHANGED <<envVars, loading, error, regexFormat, regexPresets,
                   editingIndex, editingValue>>

\* the buttons of a row are disabled while saving (isLoading); the move-up
\* button is also disabled at index 0, where the handler changes nothing
handleMoveUp(index) ==
    /\ lastOp' = "handleMoveUp"
    /\ UNCHANGED <<submitVars, formatVars, timerVars, presetVars>>
    /\ RowShown(index)
    /\ ~saving
    /\ IF index > 0
       THEN updatePatterns(Swap(regexArray, index, index - 1))
       ELSE notified' = <<>> /\ UNCHANGED <<regexArray, errors>>
    /\ UNCHANGED <<envVars, loading, error, regexFormat, regexPresets,
                   editingIndex, editingValue>>

\* a move down that selects the moved pattern for edit
handleMoveDownSelects(index) ==
    /\ lastOp' = "handleMoveDown"
    /\ UNCHANGED <<submitVars, formatVars, timerVars, presetVars>>
    /\ RowShown(index)
    /\ ~saving
    /\ IF index < Len(regexArray) - 1
       THEN /\ updatePatterns(Swap(regexArray, index, index + 1))
            /\ editingIndex' = index + 1
            /\ editingValue' = regexArray[index + 1]
       ELSE notified' = <<>> /\ UNCHANGED <<regexArray, errors, editingIndex, editingValue>>
    /\ UNCHANGED <<envVars, loading, error, regexFormat, regexPresets>>

\* the button is disabled at the last index, where the handler changes nothing
handleMoveDown(index) ==
    /\ lastOp' = "handleMoveDown"
    /\ UNCHANGED <<submitVars, formatVars, timerVars, presetVars>>
    /\ RowShown(index)
    /\ ~saving
    /\ IF index < Len(regexArray) - 1
       THEN updatePatterns(Swap(regexArray, index, index + 1))
       ELSE notified' = <<>> /\ UNCHANGED <<regexArray, errors>>
    /\ UNCHANGED <<envVars, loading, error, regexFormat, regexPresets,
                   editingIndex, editingValue>>

\* a remove that is refused while a pattern is flagged
handleRemoveWhenClean(index) ==
    /\ lastOp' = "handleRemove"
    /\ UNCHANGED <<submitVars, formatVars, timerVars, presetVars>>
    /\ RowShown(index)
    /\ ~saving
    /\ errors = NoErrors
    /\ updatePatterns(Without(regexArray, index))
    /\ UNCHANGED <<envVars, loading, error, regexFormat, regexPresets,
                   editingIndex, editingValue>>

handleRemove(index) ==
    /\ lastOp' = "handleRemove"
    /\ UNCHANGED <<submitVars, formatVars, timerVars, presetVars>>
    /\ RowShown(index)
    /\ ~saving
    /\ updatePatterns(Without(regexArray, index))
    /\ UNCHANGED <<envVars, loading, error, regexFormat, regexPresets,
                   editingIndex, editingValue>>

\* an append that leaves the editor's state alone
handleAddStaysIdle ==
    /\ lastOp' = "handleAdd"
    /\ UNCHANGED <<submitVars, formatVars, timerVars, presetVars>>
    /\ EditorMounted
    /\ ~saving \/ Len(regexArray) = 0
    /\ Len(regexArray) < MaxPatterns
    /\ updatePatterns(Append(regexArray, <<>>))
    /\ UNCHANGED <<envVars, loading, error, regexFormat, regexPresets,
                   editingIndex, editingValue>>

\* "Add Pattern" is disabled while saving; "Add First Pattern", rendered for
\* an empty sequence, is not
handleAdd ==
    /\ lastOp' = "handleAdd"
    /\ UNCHANGED <<submitVars, formatVars, timerVars, presetVars>>
    /\ EditorMounted
    /\ ~saving \/ Len(regexArray) = 0
    /\ Len(regexArray) < MaxPatterns
    /\ updatePatterns(Append(regexArray, <<>>))
    /\ editingIndex' = Len(regexArray)
    /\ editingValue' = <<>>
    /\ UNCHANGED <<envVars, loading, error, regexFormat, regexPresets>>

\* the index of a call of handleApplyPreset(presetName) without its
\* optional second argument
NoIndex == -2

\* an apply without index that puts the preset's pattern before the sequence
handleApplyPresetPrepends(presetName, index) ==
    /\ lastOp' = "handleApplyPreset"
    /\ UNCHANGED <<submitVars, formatVars, timerVars, presetVars>>
    /\ IF index = NoIndex THEN EditorMounted ELSE RowShown(index)
    /\ presetName \in DOMAIN PresetMap
    /\ IF PresetMap[presetName] = <<>>
       THEN notified' = <<>> /\ UNCHANGED <<regexArray, errors>>
       ELSE IF index # NoIndex
       THEN updatePatterns(SetAt(regexArray, index, PresetMap[presetName]))
       ELSE updatePatterns(<<PresetMap[presetName]>> \o regexArray)
    /\ UNCHANGED <<envVars, loading, error, regexFormat, regexPresets,
                   editingIndex, editingValue>>

\* handleApplyPreset(presetName, index): the "Apply Preset" select of a row
\* passes the row's index; without an index (index?: number) the handler
\* replaces the whole sequence
handleApplyPreset(presetName, index) ==
    /\ lastOp' = "handleApplyPreset"
    /\ UNCHANGED <<submitVars, formatVars, timerVars, presetVars>>
    /\ IF index = NoIndex THEN EditorMounted ELSE RowShown(index)
    /\ presetName \in DOMAIN PresetMap
    /\ IF PresetMap[presetName] = <<>>
       THEN notified' = <<>> /\ UNCHANGED <<regexArray, errors>>
       ELSE IF index # NoIndex
       THEN updatePatterns(SetAt(regexArray, index, PresetMap[presetName]))
       ELSE updatePatterns(<<PresetMap[presetName]>>)
    /\ UNCHANGED <<envVars, loading, error, regexFormat, regexPresets,
                   editingIndex, editingValue>>

\* the "Insert After" select of a row
handleInsertPreset(presetName, afterIndex) ==
    /\ lastOp' = "handleInsertPreset"
    /\ UNCHANGED <<submitVars, formatVars, timerVars, presetVars>>
    /\ RowShown(afterIndex)
    /\ presetName \in DOMAIN PresetMap
    /\ Len(regexArray) < MaxPatterns
    /\ IF PresetMap[presetName] = <<>>
       THEN notified' = <<>> /\ UNCHANGED <<regexArray, errors>>
       ELSE updatePatterns(SpliceAfter(regexArray, afterIndex, PresetMap[presetName]))
    /\ UNCHANGED <<envVars, loading, error, regexFormat, regexPresets,
                   editingIndex, editingValue>>

(***************************************************************************)
(* EnvConfig: the form that owns the working sequence                      *)
(***************************************************************************)

\* React keeps the editor's state while it stays rendered and drops it when
\* the row, the form or the array branch is no longer rendered; a later
\* render mounts a new instance in its initial state
editorAfterRender ==
    IF EditorMounted'
    THEN UNCHANGED editorVars
    ELSE editingIndex' = null /\ editingValue' = <<>> /\ errors' = NoErrors

\* fetchEnvVars, from the response of GET /api/env on
fetchEnvVars(data) ==
    /\ lastOp' = "fetchEnvVars"
    /\ UNCHANGED <<submitVars, formatVars, timerVars, presetVars>>
    /\ loading
    /\ envVars' = data
    /\ error' = NoMsg
    /\ LET parsedRegex == parseRegexValue(data.regex) IN
       IF parsedRegex.format = "empty"
       THEN regexArray' = getDefaultRegexPatterns /\ regexFormat' = "array"
       ELSE regexArray' = parsedRegex.array /\ regexFormat' = parsedRegex.format
    /\ loading' = FALSE
    /\ notified' = <<>>
    /\ UNCHANGED regexPresets
    /\ editorAfterRender

\* fetchEnvVars when the request fails
fetchEnvVarsFailed ==
    /\ lastOp' = "fetchEnvVarsFailed"
    /\ UNCHANGED <<submitVars, formatVars, timerVars, presetVars>>
    /\ loading
    /\ error' = "Failed to fetch environment variables"
    /\ loading' = FALSE
    /\ notified' = <<>>
    /\ UNCHANGED <<envVars, regexFormat, regexArray, regexPresets>>
    /\ editorAfterRender

\* silentRefreshEnvVars, which the interval calls when the countdown ends,
\* from the response of GET /api/env on
\* a refresh that parses the fetched regex value whether or not the mapping
\* has changed
silentRefreshEnvVarsAlways(data) ==
    /\ lastOp' = "silentRefreshEnvVars"
    /\ UNCHANGED <<submitVars, formatVars, timerVars, presetVars>>
    /\ LET parsedRegex == parseRegexValue(data.regex) IN
       /\ envVars' = data
       /\ regexFormat' = parsedRegex.format
       /\ regexArray' = parsedRegex.array
    /\ error' = NoMsg
    /\ notified' = <<>>
    /\ UNCHANGED <<loading, regexPresets>>
    /\ editorAfterRender

silentRefreshEnvVars(data) ==
    /\ lastOp' = "silentRefreshEnvVars"
    /\ UNCHANGED <<submitVars, formatVars, timerVars, presetVars>>
    /\ IF envVars # data
       THEN LET parsedRegex == parseRegexValue(data.regex) IN
            /\ envVars' = data
            /\ regexFormat' = parsedRegex.format
            /\ regexArray' = parsedRegex.array
       ELSE UNCHANGED <<envVars, regexFormat, regexArray>>
    /\ error' = NoMsg
    /\ notified' = <<>>
    /\ UNCHANGED <<loading, regexPresets>>
    /\ editorAfterRender

\* fetchRegexPresets, from the response of GET /api/regex-presets on
fetchRegexPresets ==
    /\ lastOp' = "fetchRegexPresets"
    /\ UNCHANGED <<submitVars, formatVars, timerVars, presetVars>>
    /\ regexPresets = <<>>
    /\ regexPresets' = ServerPresets
    /\ notified' = <<>>
    /\ UNCHANGED <<envVars, loading, error, regexFormat, regexArray, editorVars>>

handleInputChange(key, value) ==
    /\ envVars' = [envVars EXCEPT ![key] = value]
    /\ notified' = <<>>
    /\ UNCHANGED <<loading, error, regexFormat, regexArray, regexPresets>>
    /\ editorAfterRender

\* typing into the text input of the regex row (rendered unless the format
\* is array)
typeRegexValue(value) ==
    /\ lastOp' = "typeRegexValue"
    /\ UNCHANGED <<submitVars, formatVars, timerVars, presetVars>>
    /\ RegexRowShown
    /\ regexFormat # "array"
    /\ handleInputChange("regex", value)

\* a click on a preset of the list under the regex row
applyRegexPreset(pattern) ==
    /\ lastOp' = "applyRegexPreset"
    /\ UNCHANGED <<submitVars, formatVars, timerVars, presetVars>>
    /\ RegexRowShown
    /\ IF regexFormat = "array"
       THEN /\ regexArray' = <<pattern>>
            /\ notified' = <<>>
            /\ UNCHANGED <<envVars, loading, error, regexFormat, regexPresets, editorVars>>
       ELSE handleInputChange("regex", pattern)

\* the "Convert to Priority List" button
convertToPriorityList ==
    /\ lastOp' = "convertToPriorityList"
    /\ UNCHANGED <<submitVars, formatVars, timerVars, presetVars>>
    /\ RegexRowShown
    /\ regexFormat # "array"
    /\ regexArray' = stringToRegexArray(envVars.regex)
    /\ regexFormat' = "array"
    /\ notified' = <<>>
    /\ UNCHANGED <<envVars, loading, error, regexPresets>>
    /\ editorAfterRender

\* a handleSubmit that sends the mapping as held, without the conversion of
\* the working sequence
handleSubmitSendsHeld ==
    /\ lastOp' = "handleSubmit"
    /\ FormShown
    /\ ~saving
    /\ saving' = TRUE
    /\ success' = NoMsg
    /\ error' = NoMsg
    /\ request' = envVars
    /\ submitPc' = "save"
    /\ notified' = <<>>
    /\ UNCHANGED <<envVars, loading, regexFormat, regexArray, regexPresets,
                   editorVars, formatVars, timerVars,
                   presetVars>>

\* handleSubmit up to its first await: the states are set and POST /api/env
\* is issued with dataToSend.  The submit button is disabled while saving.
handleSubmit ==
    /\ lastOp' = "handleSubmit"
    /\ FormShown
    /\ ~saving
    /\ saving' = TRUE
    /\ success' = NoMsg
    /\ error' = NoMsg
    /\ request' = IF regexFormat = "array"
                  THEN [envVars EXCEPT !.regex = regexArrayToString(regexArray)]
                  ELSE envVars
    /\ submitPc' = "save"
    /\ notified' = <<>>
    /\ UNCHANGED <<envVars, loading, regexFormat, regexArray, regexPresets,
                   editorVars, formatVars, timerVars,
                   presetVars>>

\* handleSubmit from the response of POST /api/env on: a response that is
\* not ok throws into the catch and the finally; an ok one sets the first
\* success message and issues POST /api/bridge-reload
saveResponded(ok) ==
    /\ lastOp' = "saveResponded"
    /\ submitPc = "save"
    /\ IF ok
       THEN /\ success' = "saved, restart to apply"
            /\ submitPc' = "reload"
            /\ UNCHANGED <<error, saving>>
       ELSE /\ error' = "Failed to save environment variables"
            /\ saving' = FALSE
            /\ submitPc' = "idle"
            /\ UNCHANGED success
    /\ notified' = <<>>
    /\ UNCHANGED <<envVars, loading, regexFormat, regexArray, regexPresets,
                   request, formatVars, timerVars,
                   presetVars>>
    /\ editorAfterRender

\* handleSubmit from the response of POST /api/bridge-reload on
ReloadOutcomes == {"ok", "not ok", "throws"}

\* a reload trigger whose exception reaches the outer catch
reloadRespondedRethrows(outcome) ==
    /\ lastOp' = "reloadResponded"
    /\ submitPc = "reload"
    /\ IF outcome = "throws"
       THEN error' = "An unknown error occurred" /\ UNCHANGED success
       ELSE /\ success' = IF outcome = "ok" THEN "saved and applied"
                          ELSE "saved, may need manual restart"
            /\ UNCHANGED error
    /\ saving' = FALSE
    /\ submitPc' = "idle"
    /\ notified' = <<>>
    /\ UNCHANGED <<envVars, loading, regexFormat, regexArray, regexPresets,
                   editorVars, request, formatVars, timerVars,
                   presetVars>>

reloadResponded(outcome) ==
    /\ lastOp' = "reloadResponded"
    /\ submitPc = "reload"
    /\ success' = CASE outcome = "ok" -> "saved and applied"
                    [] outcome = "not ok" -> "saved, may need manual restart"
                    [] OTHER -> "saved, connection failed"
    /\ saving' = FALSE
    /\ submitPc' = "idle"
    /\ notified' = <<>>
    /\ UNCHANGED <<orchVars, editorVars, request, formatVars, timerVars,
                   presetVars>>

\* the component is rendered: the cleanup of its mount effect has not run
Mounted == refreshIntervalRef = "running"

\* a callback that refreshes only when the countdown has passed 1
tickAtZero ==
    /\ lastOp' = "tick"
    /\ refreshIntervalRef = "running"
    /\ IF timeUntilRefresh <= 0
       THEN timeUntilRefresh' = RefreshSeconds /\ refreshCalls' = 1
       ELSE timeUntilRefresh' = timeUntilRefresh - 1 /\ refreshCalls' = 0
    /\ notified' = <<>>
    /\ UNCHANGED <<orchVars, editorVars, submitVars, formatVars,
                   refreshIntervalRef, presetVars>>

\* the callback of setInterval(..., 1000): the updater of timeUntilRefresh,
\* which calls silentRefreshEnvVars() when prev <= 1 (the updater is run once)
tick ==
    /\ lastOp' = "tick"
    /\ refreshIntervalRef = "running"
    /\ IF timeUntilRefresh <= 1
       THEN timeUntilRefresh' = RefreshSeconds /\ refreshCalls' = 1
       ELSE timeUntilRefresh' = timeUntilRefresh - 1 /\ refreshCalls' = 0
    /\ notified' = <<>>
    /\ UNCHANGED <<orchVars, editorVars, submitVars, formatVars,
                   refreshIntervalRef, presetVars>>

\* the cleanup of the mount effect, when the component is taken down:
\* clearInterval(refreshIntervalRef.current)
cleanup ==
    /\ lastOp' = "cleanup"
    /\ refreshIntervalRef = "running"
    /\ refreshIntervalRef' = "cleared"
    /\ notified' = <<>>
    /\ UNCHANGED <<orchVars, editorVars, submitVars, formatVars,
                   timeUntilRefresh, refreshCalls, presetVars>>

\* the requests to /api/regex-presets that may await their response at once
MaxPresetCalls == 2

\* the preset list under the regex row is rendered
PresetsShown == Mounted /\ RegexRowShown

\* the chips of the list
Chips == 1..Len(regexPresets)

\* the sequence without its k-th element
Answered(calls, k) == SubSeq(calls, 1, k - 1) \o SubSeq(calls, k + 1, Len(calls))

\* the "Add Custom Preset" / "Cancel" button
togglePresetForm ==
    /\ lastOp' = "togglePresetForm"
    /\ PresetsShown
    /\ editingPreset' = NoPreset
    /\ newPreset' = BlankPreset
    /\ showAddPreset' = ~showAddPreset
    /\ notified' = <<>>
    /\ UNCHANGED <<orchVars, editorVars, submitVars, formatVars, timerVars,
                   presetCalls>>

\* typing into the name input of the preset form
setNewPresetName(name) ==
    /\ lastOp' = "setNewPresetName"
    /\ PresetsShown
    /\ showAddPreset
    /\ newPreset' = [newPreset EXCEPT !.name = name]
    /\ notified' = <<>>
    /\ UNCHANGED <<orchVars, editorVars, submitVars, formatVars, timerVars,
                   showAddPreset, editingPreset, presetCalls>>

\* typing into the pattern input of the preset form
setNewPresetPattern(pattern) ==
    /\ lastOp' = "setNewPresetPattern"
    /\ PresetsShown
    /\ showAddPreset
    /\ newPreset' = [newPreset EXCEPT !.pattern = pattern]
    /\ notified' = <<>>
    /\ UNCHANGED <<orchVars, editorVars, submitVars, formatVars, timerVars,
                   showAddPreset, editingPreset, presetCalls>>

\* an edit button rendered on every chip, the default ones too
handleEditPresetAny(k) ==
    /\ lastOp' = "handleEditPreset"
    /\ PresetsShown
    /\ k \in Chips
    /\ editingPreset' = regexPresets[k]
    /\ newPreset' = [name |-> regexPresets[k].name,
                     pattern |-> regexPresets[k].pattern]
    /\ showAddPreset' = TRUE
    /\ notified' = <<>>
    /\ UNCHANGED <<orchVars, editorVars, submitVars, formatVars, timerVars,
                   presetCalls>>

\* the edit button of chip k, rendered when !preset.isDefault
handleEditPreset(k) ==
    /\ lastOp' = "handleEditPreset"
    /\ PresetsShown
    /\ k \in Chips
    /\ ~regexPresets[k].isDefault
    /\ editingPreset' = regexPresets[k]
    /\ newPreset' = [name |-> regexPresets[k].name,
                     pattern |-> regexPresets[k].pattern]
    /\ showAddPreset' = TRUE
    /\ notified' = <<>>
    /\ UNCHANGED <<orchVars, editorVars, submitVars, formatVars, timerVars,
                   presetCalls>>

\* handleSavePreset up to the request of savePreset: the button is disabled
\* while the name or the pattern is empty; the handler returns when one of
\* them is blank; the request carries editingPreset?.id if there is one. The
\* call keeps what the handler's closure holds: editingPreset, newPreset and
\* envVars as rendered
handleSavePreset ==
    /\ lastOp' = "handleSavePreset"
    /\ PresetsShown
    /\ showAddPreset
    /\ newPreset.name # ""
    /\ newPreset.pattern # <<>>
    /\ Len(presetCalls) < MaxPresetCalls
    /\ IF TrimName(newPreset.name) = "" \/ IsBlank(newPreset.pattern)
       THEN UNCHANGED presetCalls
       ELSE presetCalls' = Append(presetCalls,
                [method |-> "POST",
                 id |-> IF editingPreset # NoPreset THEN editingPreset.id ELSE NewId,
                 existing |-> editingPreset # NoPreset,
                 from |-> "handleSavePreset",
                 name |-> newPreset.name,
                 pattern |-> newPreset.pattern,
                 edited |-> editingPreset,
                 held |-> envVars.regex])
    /\ notified' = <<>>
    /\ UNCHANGED <<orchVars, editorVars, submitVars, formatVars, timerVars,
                   showAddPreset, editingPreset, newPreset>>

\* handleSaveBuilderPreset: the builder, rendered in string format, saves a
\* pattern under a name; savePreset is called without an id
handleSaveBuilderPreset(name, pattern) ==
    /\ lastOp' = "handleSaveBuilderPreset"
    /\ PresetsShown
    /\ regexFormat = "string"
    /\ Len(presetCalls) < MaxPresetCalls
    /\ presetCalls' = Append(presetCalls,
            [method |-> "POST", id |-> NewId, existing |-> FALSE,
             from |-> "handleSaveBuilderPreset",
             name |-> name, pattern |-> pattern,
             edited |-> NoPreset, held |-> envVars.regex])
    /\ notified' = <<>>
    /\ UNCHANGED <<orchVars, editorVars, submitVars, formatVars, timerVars,
                   showAddPreset, editingPreset, newPreset>>

\* savePreset from the response of POST /api/regex-presets on, and the rest
\* of handleSavePreset after it: an ok response replaces the list; failed or
\* not, the form is cleared and closed, and when the preset edited was the
\* value held, the value becomes the pattern typed
savePresetResponded(k, ok, presets) ==
    /\ lastOp' = "savePresetResponded"
    /\ Mounted
    /\ k \in 1..Len(presetCalls)
    /\ presetCalls[k].method = "POST"
    /\ presetCalls' = Answered(presetCalls, k)
    /\ regexPresets' = IF ok THEN presets ELSE regexPresets
    /\ IF presetCalls[k].from = "handleSavePreset"
       THEN /\ newPreset' = BlankPreset
            /\ editingPreset' = NoPreset
            /\ showAddPreset' = FALSE
            /\ envVars' = IF /\ presetCalls[k].edited # NoPreset
                             /\ presetCalls[k].held = presetCalls[k].edited.pattern
                          THEN [envVars EXCEPT !.regex = presetCalls[k].pattern]
                          ELSE envVars
       ELSE UNCHANGED <<newPreset, editingPreset, showAddPreset, envVars>>
    /\ notified' = <<>>
    /\ UNCHANGED <<loading, error, regexFormat, regexArray, submitVars,
                   formatVars, timerVars>>
    /\ editorAfterRender

\* handleDeletePreset(preset.id) up to its request: the delete button of
\* chip k, rendered when !preset.isDefault
handleDeletePreset(k) ==
    /\ lastOp' = "handleDeletePreset"
    /\ PresetsShown
    /\ k \in Chips
    /\ ~regexPresets[k].isDefault
    /\ Len(presetCalls) < MaxPresetCalls
    /\ presetCalls' = Append(presetCalls,
            [method |-> "DELETE", id |-> regexPresets[k].id, existing |-> TRUE,
             from |-> "handleDeletePreset",
             name |-> regexPresets[k].name, pattern |-> regexPresets[k].pattern,
             edited |-> NoPreset, held |-> envVars.regex])
    /\ notified' = <<>>
    /\ UNCHANGED <<orchVars, editorVars, submitVars, formatVars, timerVars,
                   showAddPreset, editingPreset, newPreset>>

\* handleDeletePreset from the response of DELETE /api/regex-presets on
deletePresetResponded(k, ok, presets) ==
    /\ lastOp' = "deletePresetResponded"
    /\ Mounted
    /\ k \in 1..Len(presetCalls)
    /\ presetCalls[k].method = "DELETE"
    /\ presetCalls' = Answered(presetCalls, k)
    /\ regexPresets' = IF ok THEN presets ELSE regexPresets
    /\ notified' = <<>>
    /\ UNCHANGED <<envVars, loading, error, regexFormat, regexArray, editorVars,
                   submitVars, formatVars, timerVars,
                   showAddPreset, editingPreset, newPreset>>

(***************************************************************************)
(* The program                                                             *)
(***************************************************************************)

\* the states of EnvConfig and of the editor after construction
ProgramInit ==
    /\ envVars = [regex |-> Null, other |-> "undefined"]
    /\ loading = TRUE
    /\ error = NoMsg
    /\ regexFormat = "empty"
    /\ regexArray = <<>>
    /\ regexPresets = <<>>
    /\ editingIndex = null
    /\ editingValue = <<>>
    /\ errors = NoErrors
    /\ notified = <<>>
    /\ lastOp = "none"
    /\ saving = FALSE
    /\ success = NoMsg
    /\ submitPc = "idle"
    /\ request = NoRequest
    /\ timeUntilRefresh = RefreshSeconds
    /\ refreshIntervalRef = "running"
    /\ refreshCalls = 0
    /\ showAddPreset = FALSE
    /\ editingPreset = NoPreset
    /\ newPreset = BlankPreset
    /\ presetCalls = <<>>

Init ==
    /\ ProgramInit
    /\ fvalue = <<>>
    /\ fpatterns = <<>>
    /\ fcall = NoCall

\* the editor and the owner's writes to the working sequence
Next ==
    \/ \E index \in Positions : handleEdit(index)
    \/ \E value \in EditTexts : setEditingValue(value)
    \/ handleSaveEdit
    \/ handleCancelEdit
    \/ \E index \in Positions : handleMoveUp(index)
    \/ \E index \in Positions : handleMoveDown(index)
    \/ \E index \in Positions : handleRemove(index)
    \/ handleAdd
    \/ \E index \in Positions : \E name \in DOMAIN PresetMap :
            handleApplyPreset(name, index)
    \/ \E index \in Positions : \E name \in DOMAIN PresetMap :
            handleInsertPreset(name, index)
    \/ \E data \in ServerData : fetchEnvVars(data)
    \/ fetchEnvVarsFailed
    \/ \E data \in ServerData : silentRefreshEnvVars(data)
    \/ fetchRegexPresets
    \/ \E value \in EditTexts : typeRegexValue(value)
    \/ \E k \in 1..Len(regexPresets) : applyRegexPreset(regexPresets[k].pattern)
    \/ convertToPriorityList

Spec == Init /\ [][Next]_vars

\* the mappings of the server that hold the regex key
KeyedData == {data \in ServerData : data.regex # Null}

\* the save of a mapping that holds the regex key, with the operations that
\* bring the form into its formats and the working sequence to its lengths
SubmitNext ==
    \/ \E data \in KeyedData : fetchEnvVars(data)
    \/ \E data \in KeyedData : silentRefreshEnvVars(data)
    \/ \E value \in EditTexts : typeRegexValue(value)
    \/ convertToPriorityList
    \/ \E index \in Positions : handleRemove(index)
    \/ handleAdd
    \/ handleSubmit
    \/ \E ok \in BOOLEAN : saveResponded(ok)
    \/ \E outcome \in ReloadOutcomes : reloadResponded(outcome)

SubmitSpec == Init /\ [][SubmitNext]_vars

\* the submit with its two requests answered: fetch settles its promise with
\* a response or with a network error, so a pending await is resumed
SubmitFairSpec ==
    /\ SubmitSpec
    /\ WF_vars(\E ok \in BOOLEAN : saveResponded(ok))
    /\ WF_vars(\E outcome \in ReloadOutcomes : reloadResponded(outcome))

\* the auto-refresh: the interval's callback, the responses of the initial
\* fetch and of the background refreshes while the component is rendered
\* (React ignores the state updates of a component taken down), the cleanup
TimerNext ==
    \/ \E data \in KeyedData : Mounted /\ fetchEnvVars(data)
    \/ \E data \in KeyedData : Mounted /\ silentRefreshEnvVars(data)
    \/ tick
    \/ cleanup

TimerSpec == Init /\ [][TimerNext]_vars

\* setInterval runs its callback every second until clearInterval
TimerFairSpec == TimerSpec /\ WF_vars(tick)

\* the preset list: the form is loaded, the presets are loaded, and the
\* list's buttons, the preset form and the builder are used
PresetNext ==
    \/ \E data \in KeyedData : fetchEnvVars(data)
    \/ fetchRegexPresets
    \/ togglePresetForm
    \/ \E name \in NameTexts : setNewPresetName(name)
    \/ \E pattern \in EditTexts : setNewPresetPattern(pattern)
    \/ \E k \in 1..3 : handleEditPreset(k)
    \/ handleSavePreset
    \/ \E name \in NameTexts \ {" "} : \E pattern \in EditTexts :
            handleSaveBuilderPreset(name, pattern)
    \/ \E k \in 1..MaxPresetCalls : \E ok \in BOOLEAN : \E presets \in PresetLists :
            savePresetResponded(k, ok, presets)
    \/ \E k \in 1..3 : handleDeletePreset(k)
    \/ \E k \in 1..MaxPresetCalls : \E ok \in BOOLEAN : \E presets \in PresetLists :
            deletePresetResponded(k, ok, presets)

PresetSpec == Init /\ [][PresetNext]_vars

\* the mappings whose regex value is stored as an array
ArrayData == {data \in ServerData : detectRegexFormat(data.regex) = "array"}

\* the editor's handlers on a sequence the form loads from a stored array,
\* each called as its signature allows: handleApplyPreset also without an
\* index
EditorNext ==
    \/ \E data \in ArrayData : fetchEnvVars(data)
    \/ fetchRegexPresets
    \/ \E index \in Positions : handleEdit(index)
    \/ \E value \in EditTexts : setEditingValue(value)
    \/ handleSaveEdit
    \/ handleCancelEdit
    \/ \E index \in Positions : handleMoveUp(index)
    \/ \E index \in Positions : handleMoveDown(index)
    \/ \E index \in Positions : handleRemove(index)
    \/ handleAdd
    \/ \E index \in Positions \cup {NoIndex} : \E name \in DOMAIN PresetMap :
            handleApplyPreset(name, index)
    \/ \E index \in Positions : \E name \in DOMAIN PresetMap :
            handleInsertPreset(name, index)

EditorSpec == Init /\ [][EditorNext]_vars

(***************************************************************************)
(* The format model on its own: a function of src/lib/env-utils.ts is      *)
(* applied to a stored value or to a sequence, and fcall holds the call.   *)
(***************************************************************************)

\* a call on a stored value, or on a sequence
FormatInit ==
    /\ ProgramInit
    /\ \/ fvalue \in FormatValues /\ fpatterns = <<>>
       \/ fvalue = <<>> /\ fpatterns \in FormatSequences
    /\ fcall = NoCall

programVars ==
    <<envVars, loading, error, regexFormat, regexArray, regexPresets,
      editingIndex, editingValue, errors, notified, lastOp,
      saving, success, submitPc, request,
      timeUntilRefresh, refreshIntervalRef, refreshCalls,
      showAddPreset, editingPreset, newPreset, presetCalls>>

\* regexArrayToString(fpatterns), whose result becomes the stored value
callRegexArrayToString ==
    /\ fcall = NoCall
    /\ fvalue' = regexArrayToString(fpatterns)
    /\ fcall' = [op |-> "regexArrayToString", after |-> "none",
                 out |-> regexArrayToString(fpatterns)]
    /\ UNCHANGED <<fpatterns, programVars>>

\* parseRegexValue(fvalue)
callParseRegexValue ==
    /\ fcall.op \in {"none", "regexArrayToString"}
    /\ fcall' = [op |-> "parseRegexValue", after |-> fcall.op,
                 out |-> parseRegexValue(fvalue)]
    /\ UNCHANGED <<fvalue, fpatterns, programVars>>

\* detectRegexFormat(fvalue)
callDetectRegexFormat ==
    /\ fcall = NoCall
    /\ fcall' = [op |-> "detectRegexFormat", after |-> "none",
                 out |-> detectRegexFormat(fvalue)]
    /\ UNCHANGED <<fvalue, fpatterns, programVars>>

\* validateRegexArray(fpatterns)
callValidateRegexArray ==
    /\ fcall = NoCall
    /\ fcall' = [op |-> "validateRegexArray", after |-> "none",
                 out |-> validateRegexArray(fpatterns)]
    /\ UNCHANGED <<fvalue, fpatterns, programVars>>

\* validateRegexPattern(fvalue)
callValidateRegexPattern ==
    /\ fcall = NoCall
    /\ fcall' = [op |-> "validateRegexPattern", after |-> "none",
                 out |-> validateRegexPattern(fvalue)]
    /\ UNCHANGED <<fvalue, fpatterns, programVars>>

\* the editor's validatePattern(fvalue)
callValidatePattern ==
    /\ fcall = NoCall
    /\ fcall' = [op |-> "validatePattern", after |-> "none",
                 out |-> validatePattern(fvalue)]
    /\ UNCHANGED <<fvalue, fpatterns, programVars>>

\* getMatchingPresetName(fpatterns, presets)
callGetMatchingPresetName ==
    /\ fcall = NoCall
    /\ \E presets \in FormatPresets :
          fcall' = [op |-> "getMatchingPresetName", after |-> "none",
                    presets |-> presets,
                    out |-> getMatchingPresetName(fpatterns, presets)]
    /\ UNCHANGED <<fvalue, fpatterns, programVars>>

FormatNext ==
    \/ callRegexArrayToString
    \/ callParseRegexValue
    \/ callDetectRegexFormat
    \/ callValidateRegexArray
    \/ callGetMatchingPresetName
    \/ callValidateRegexPattern
    \/ callValidatePattern

FormatSpec == FormatInit /\ [][FormatNext]_vars

(***************************************************************************)
(* Properties                                                              *)
(***************************************************************************)

\* the positions of patterns the specification calls invalid: blank, not
\* compiling as a regular expression, or equal after trimming to the
\* pattern at an earlier position
Flagged(patterns) ==
    {i \in 0..(Len(patterns) - 1) :
        \/ IsBlank(patterns[i + 1])
        \/ ~RegExpCompiles(patterns[i + 1])
        \/ \E j \in 0..(i - 1) : Trim(patterns[j + 1]) = Trim(patterns[i + 1])}

\* the editor has no position under edit
Idle == editingIndex = null

\* the handlers of the structural operations
StructuralOps ==
    {"handleMoveUp", "handleMoveDown", "handleRemove", "handleAdd",
     "handleApplyPreset", "handleInsertPreset"}

\* C1: in every state the error mapping of the live editor has an entry at
\* exactly the positions of the current sequence that are blank, fail to
\* compile or repeat the trimmed text of an earlier position
C1_ErrorsMatchSequence ==
    EditorMounted => DOMAIN errors = Flagged(regexArray)

\* C2: a structural operation (move up, move down, remove, append, apply
\* preset, insert preset) changes the sequence only in a step that starts
\* with the editor Idle
C2_StructuralOnlyWhenIdle ==
    [][(lastOp' \in StructuralOps /\ regexArray' # regexArray) => Idle]_vars

\* the handlers of the editor
EditorOps ==
    StructuralOps \cup {"handleEdit", "setEditingValue", "handleSaveEdit", "handleCancelEdit"}

\* C3: a save with position i under edit keeps the length of the sequence,
\* changes it at most at position i, which then holds the working text,
\* leaves an error mapping that is the validation of the whole new sequence,
\* notifies the owner, and ends Idle with the working text cleared
C3_SaveCommitsWorkingText ==
    [][lastOp' = "handleSaveEdit" =>
        /\ editingIndex \in Positions
        /\ Len(regexArray') = Len(regexArray)
        /\ \A k \in Positions :
              k # editingIndex => regexArray'[k + 1] = regexArray[k + 1]
        /\ regexArray'[editingIndex + 1] = editingValue
        /\ DOMAIN errors' = Flagged(regexArray')
        /\ notified' = <<regexArray'>>
        /\ editingIndex' = null
        /\ editingValue' = <<>>]_vars

\* a save has just written a pattern that does not compile into the middle
\* of a three-pattern sequence
C3_Witness ==
    /\ lastOp = "handleSaveEdit"
    /\ Idle
    /\ Len(regexArray) = 3
    /\ regexArray[2] = <<"(">>
    /\ regexArray[1] = getDefaultRegexPatterns[1]
    /\ DOMAIN errors = {1}
    /\ notified = <<regexArray>>

\* C4: a cancel with a position under edit ends Idle, leaves the sequence
\* and the error mapping as they were and does not notify the owner
C4_CancelDiscards ==
    [][lastOp' = "handleCancelEdit" =>
        /\ editingIndex \in Positions
        /\ editingIndex' = null
        /\ regexArray' = regexArray
        /\ errors' = errors
        /\ notified' = <<>>]_vars

\* a cancel has just ended the edit of a position of a sequence that holds
\* errors, and nothing was notified
C4_Witness ==
    /\ lastOp = "handleCancelEdit"
    /\ Idle
    /\ regexArray # <<>>
    /\ errors # NoErrors
    /\ notified = <<>>

\* the preset names whose pattern is not empty
UsablePresets == {name \in DOMAIN PresetMap : PresetMap[name] # <<>>}

\* a step that is an accepted mutation: a committed edit, an in-range move,
\* a remove, an append, or the apply or insert of a preset that has a pattern
AcceptedMutation ==
    \/ handleSaveEdit
    \/ handleAdd
    \/ /\ lastOp' = "handleMoveUp"
       /\ \E index \in Positions : index > 0 /\ handleMoveUp(index)
    \/ /\ lastOp' = "handleMoveDown"
       /\ \E index \in Positions :
             index < Len(regexArray) - 1 /\ handleMoveDown(index)
    \/ /\ lastOp' = "handleRemove"
       /\ \E index \in Positions : handleRemove(index)
    \/ /\ lastOp' = "handleApplyPreset"
       /\ \E index \in Positions : \E name \in UsablePresets :
             handleApplyPreset(name, index)
    \/ /\ lastOp' = "handleInsertPreset"
       /\ \E index \in Positions : \E name \in UsablePresets :
             handleInsertPreset(name, index)

\* a step that selects a position for edit, cancels, or is a move the
\* handler's guard turns into a no-op
NoMutation ==
    \/ lastOp' = "handleEdit"
    \/ lastOp' = "handleCancelEdit"
    \/ handleMoveUp(0)
    \/ handleMoveDown(Len(regexArray) - 1)

\* C5: every accepted mutation calls onPatternsChange exactly once, with
\* the complete new sequence; select-for-edit, cancel and guarded no-op
\* moves do not call it; so after every editor operation the owner's
\* sequence is the last sequence the editor computed
C5_NotifiedOncePerMutation ==
    [][/\ AcceptedMutation => notified' = <<regexArray'>>
       /\ NoMutation => notified' = <<>> /\ regexArray' = regexArray
       /\ lastOp' \in EditorOps =>
             \/ notified' = <<regexArray'>>
             \/ notified' = <<>> /\ regexArray' = regexArray]_vars

\* an in-range move up has just exchanged the first two default patterns
\* and notified the owner of the new sequence
C5_Witness ==
    /\ lastOp = "handleMoveUp"
    /\ notified = <<regexArray>>
    /\ regexArray = <<getDefaultRegexPatterns[2], getDefaultRegexPatterns[1],
                      getDefaultRegexPatterns[3]>>

\* the operations of the editor as functions of the sequence
ReplacedAt(p, i, x) == SubSeq(p, 1, i) \o <<x>> \o SubSeq(p, i + 2, Len(p))

ExchangedWithNext(p, i) ==
    SubSeq(p, 1, i) \o <<p[i + 2], p[i + 1]>> \o SubSeq(p, i + 3, Len(p))

RemovedAt(p, i) == SubSeq(p, 1, i) \o SubSeq(p, i + 2, Len(p))

InsertedAfter(p, i, x) == SubSeq(p, 1, i + 1) \o <<x>> \o SubSeq(p, i + 2, Len(p))

\* C6: each editor operation is applied to the sequence the owner holds
\* when it is issued, and the owner then holds its result: over any run of
\* editor operations o1..on the owner's sequence is o1, then o2, ... then on
\* applied to the initial one, none lost and none applied to a stale copy
C6_AppliedInOrder ==
    [][/\ handleSaveEdit =>
             regexArray' = ReplacedAt(regexArray, editingIndex, editingValue)
       /\ handleAdd => regexArray' = regexArray \o << <<>> >>
       /\ lastOp' = "handleMoveUp" =>
             \A index \in Positions : handleMoveUp(index) =>
                 regexArray' = IF index > 0
                               THEN ExchangedWithNext(regexArray, index - 1)
                               ELSE regexArray
       /\ lastOp' = "handleMoveDown" =>
             \A index \in Positions : handleMoveDown(index) =>
                 regexArray' = IF index < Len(regexArray) - 1
                               THEN ExchangedWithNext(regexArray, index)
                               ELSE regexArray
       /\ lastOp' = "handleRemove" =>
             \A index \in Positions : handleRemove(index) =>
                 regexArray' = RemovedAt(regexArray, index)
       /\ lastOp' = "handleApplyPreset" =>
             \A index \in Positions : \A name \in DOMAIN PresetMap :
                 handleApplyPreset(name, index) =>
                     regexArray' = IF name \in UsablePresets
                                   THEN ReplacedAt(regexArray, index, PresetMap[name])
                                   ELSE regexArray
       /\ lastOp' = "handleInsertPreset" =>
             \A index \in Positions : \A name \in DOMAIN PresetMap :
                 handleInsertPreset(name, index) =>
                     regexArray' = IF name \in UsablePresets
                                   THEN InsertedAfter(regexArray, index, PresetMap[name])
                                   ELSE regexArray
       /\ lastOp' \in {"handleEdit", "setEditingValue", "handleCancelEdit"} =>
             regexArray' = regexArray]_vars

\* after a move down of the first default and then a remove, the owner
\* holds the two-pattern result of both operations in that order
C6_Witness ==
    /\ lastOp = "handleRemove"
    /\ notified = <<regexArray>>
    /\ regexArray = <<getDefaultRegexPatterns[2], getDefaultRegexPatterns[1]>>

\* C7: while the editor is live (mounted before and after the step) only
\* the editor's handlers change the working sequence
C7_EditorIsOnlyWriter ==
    [][(EditorMounted /\ EditorMounted' /\ regexArray' # regexArray) =>
            lastOp' \in EditorOps]_vars

\* C8: a fetch or a refresh that takes in a stored value parsing as empty
\* leaves the three default patterns as the working sequence and array as
\* the format
C8_EmptyLoadsDefaults ==
    [][(/\ lastOp' \in {"fetchEnvVars", "silentRefreshEnvVars"}
        /\ envVars' # envVars
        /\ parseRegexValue(envVars'.regex).format = "empty") =>
            /\ regexArray' = getDefaultRegexPatterns
            /\ regexFormat' = "array"]_vars

\* C9 as stated: on every save the value sent under the regex key is the
\* serialization of the working sequence, the other keys are sent as held
C9_SavedRegexIsSerialized ==
    [][lastOp' = "handleSubmit" =>
        /\ request'.regex = regexArrayToString(regexArray)
        /\ request'.other = envVars.other]_vars

\* C9 amended: on every save the value sent under the regex key is the
\* serialization of the working sequence when the format is array, and the
\* value the mapping holds when the format is string or empty; the other
\* keys are sent as held
C9_SavedRegexByFormat ==
    [][lastOp' = "handleSubmit" =>
        /\ regexFormat = "array" =>
              request'.regex = regexArrayToString(regexArray)
        /\ regexFormat # "array" => request'.regex = envVars.regex
        /\ request'.other = envVars.other]_vars

\* a save in array format has just sent the JSON array literal of a
\* two-pattern working sequence, which is not the value the mapping holds
C9_Witness ==
    /\ lastOp = "handleSubmit"
    /\ regexFormat = "array"
    /\ Len(regexArray) = 2
    /\ request.regex = JSONStringify(regexArray)
    /\ request.regex # envVars.regex
    /\ submitPc = "save"

\* a parse of what regexArrayToString returned for fpatterns has been made
RoundTripDone ==
    fcall.op = "parseRegexValue" /\ fcall.after = "regexArrayToString"

\* the text x comes back as the one-element sequence <<x>>: it is not blank,
\* has no white space at either end and is not the text of a JSON array
SurvivesCollapse(x) ==
    /\ x # <<>>
    /\ x[1] \notin WhiteSpace
    /\ x[Len(x)] \notin WhiteSpace
    /\ ~(x[1] = "[" /\ x[Len(x)] = "]" /\ JSONParse(x).ok /\ JSONParse(x).kind = "array")

\* C10 as stated: for every sequence p, of any length, the patterns of
\* parse(serialize(p)) are p
C10_RoundTripAnyLength ==
    RoundTripDone => fcall.out.array = fpatterns

\* C10 amended: the patterns of parse(serialize(p)) are p for every p of
\* length 0 or of length 2 and more, and for p = <<x>> exactly when x is not
\* blank, has no white space at either end and is not the text of a JSON
\* array
C10_RoundTripExceptCollapse ==
    RoundTripDone =>
        (fcall.out.array = fpatterns
            <=> (Len(fpatterns) # 1 \/ SurvivesCollapse(fpatterns[1])))

\* the round trip of a three-pattern sequence that holds a blank pattern, a
\* pattern with a trailing space and a pattern that needs escaping
C10_Witness ==
    /\ RoundTripDone
    /\ fpatterns = << <<" ">>, <<"a", " ">>, <<"\"", "\\">> >>
    /\ fcall.out.format = "array"
    /\ fcall.out.array = fpatterns

Distinct(p) == \A i, j \in 1..Len(p) : p[i] = p[j] => i = j

\* C11: for every sequence p of two or more distinct strings,
\* parse(serialize(p)) has format array, isValid true and patterns equal to p
\* element for element in order
C11_RoundTripOfTwoOrMore ==
    (RoundTripDone /\ Len(fpatterns) >= 2 /\ Distinct(fpatterns)) =>
        /\ fcall.out.format = "array"
        /\ fcall.out.isValid
        /\ fcall.out.array = fpatterns

\* the round trip of two distinct patterns, one of them made of a quote and
\* a backslash
C11_Witness ==
    /\ RoundTripDone
    /\ fpatterns = << <<"a">>, <<"\"", "\\">> >>
    /\ fcall.out.format = "array"
    /\ fcall.out.isValid
    /\ fcall.out.array = fpatterns

Serialized == fcall.op = "regexArrayToString"

\* text is a JSON array literal whose elements are the strings of p in order
EncodesVerbatim(text, p) ==
    /\ text # <<>> /\ text[1] = "[" /\ text[Len(text)] = "]"
    /\ JSONParse(text).ok
    /\ JSONParse(text).kind = "array"
    /\ Len(JSONParse(text).items) = Len(p)
    /\ \A k \in 1..Len(p) :
          /\ JSONParse(text).items[k].kind = "string"
          /\ JSONParse(text).items[k].str = p[k]

\* C12: serialize maps the empty sequence to the empty text, a one-element
\* sequence to that element verbatim (not trimmed, not quoted), and a
\* sequence of two or more elements to a JSON array literal that encodes the
\* elements verbatim in order
C12_SerializeByLength ==
    Serialized =>
        /\ Len(fpatterns) = 0 => fcall.out = <<>>
        /\ Len(fpatterns) = 1 => fcall.out = fpatterns[1]
        /\ Len(fpatterns) >= 2 => EncodesVerbatim(fcall.out, fpatterns)
        /\ fvalue = fcall.out

\* a one-element sequence whose element has a trailing space is serialized
\* to that element with its space
C12_Witness ==
    /\ Serialized
    /\ fpatterns = << <<"a", " ">> >>
    /\ fcall.out = <<"a", " ">>

Detected == fcall.op = "detectRegexFormat"

Absent(s) == s = Null

WhiteSpaceOnly(s) == ~Absent(s) /\ \A k \in 1..Len(s) : s[k] \in WhiteSpace

\* s without the white space at its ends
Stripped(s) ==
    LET inked == {k \in 1..Len(s) : s[k] \notin WhiteSpace} IN
    IF inked = {} THEN <<>>
    ELSE SubSeq(s, CHOOSE k \in inked : \A l \in inked : k <= l,
                   CHOOSE k \in inked : \A l \in inked : k >= l)

BracketDelimited(s) ==
    /\ ~Absent(s)
    /\ Stripped(s) # <<>>
    /\ Stripped(s)[1] = "["
    /\ Stripped(s)[Len(Stripped(s))] = "]"

\* the text of s, trimmed, is valid JSON that decodes to a list
DecodesToList(s) ==
    /\ JSONParse(Stripped(s)).ok
    /\ JSONParse(Stripped(s)).kind = "array"

\* C13: detectFormat(s) is array exactly when s, trimmed, starts with "[",
\* ends with "]" and is valid JSON decoding to a list, whatever the types of
\* the elements
C13_ArrayIffBracketedList ==
    Detected =>
        (fcall.out = "array" <=> (BracketDelimited(fvalue) /\ DecodesToList(fvalue)))

\* a list holding a number is detected as array
C13_Witness ==
    /\ Detected
    /\ fvalue = <<"[", "1", "]">>
    /\ fcall.out = "array"

\* C14: detectFormat always returns one of its three tags; it returns empty
\* exactly when the input is absent or holds only white space, and string
\* for every other input that is not detected as array, bracket-delimited
\* text that is not valid JSON included
C14_DetectIsTotal ==
    Detected =>
        /\ fcall.out \in {"empty", "string", "array"}
        /\ fcall.out = "empty" <=> (Absent(fvalue) \/ WhiteSpaceOnly(fvalue))
        /\ (BracketDelimited(fvalue) /\ ~DecodesToList(fvalue)) => fcall.out = "string"

\* bracket-delimited text that is not valid JSON is detected as string
C14_Witness ==
    /\ Detected
    /\ fvalue = <<"[", "a", "]">>
    /\ fcall.out = "string"

Parsed == fcall.op = "parseRegexValue"

\* a stored value whose trimmed text is bracket-delimited and either is not
\* valid JSON or is a JSON array with an element that is not a string
Malformed(s) ==
    /\ BracketDelimited(s)
    /\ \/ ~JSONParse(Stripped(s)).ok
       \/ /\ JSONParse(Stripped(s)).kind = "array"
          /\ \E k \in 1..Len(JSONParse(Stripped(s)).items) :
                JSONParse(Stripped(s)).items[k].kind # "string"

\* C15: for every malformed stored value (bracket-delimited text that is not
\* valid JSON, or a JSON array with a non-string element) parse returns a
\* result with isValid false and an error field
C15_MalformedIsReported ==
    (Parsed /\ Malformed(fvalue)) =>
        /\ ~fcall.out.isValid
        /\ fcall.out.error # NoError

ArrayDetected(s) == BracketDelimited(s) /\ DecodesToList(s)

StringDetected(s) == ~Absent(s) /\ ~WhiteSpaceOnly(s) /\ ~ArrayDetected(s)

\* the elements of the JSON list in s
Decoded(s) == JSONParse(Stripped(s)).items

\* C16: for every array-detected input parse returns format array; when the
\* decoded elements are all strings, isValid is true and patterns are the
\* decoded elements in order; when an element is not a string, isValid is
\* false, patterns is empty and error is "Array contains non-string values"
C16_ParseOfArray ==
    (Parsed /\ ArrayDetected(fvalue)) =>
        /\ fcall.out.format = "array"
        /\ (\A k \in 1..Len(Decoded(fvalue)) : Decoded(fvalue)[k].kind = "string") =>
              /\ fcall.out.isValid
              /\ Len(fcall.out.array) = Len(Decoded(fvalue))
              /\ \A k \in 1..Len(Decoded(fvalue)) :
                    fcall.out.array[k] = Decoded(fvalue)[k].str
        /\ (\E k \in 1..Len(Decoded(fvalue)) : Decoded(fvalue)[k].kind # "string") =>
              /\ ~fcall.out.isValid
              /\ fcall.out.array = <<>>
              /\ fcall.out.error = "Array contains non-string values"

\* the parse of a list that holds a number
C16_Witness ==
    /\ Parsed
    /\ fvalue = <<"[", "1", "]">>
    /\ fcall.out.format = "array"
    /\ ~fcall.out.isValid
    /\ fcall.out.error = "Array contains non-string values"

\* C17: for every string-detected input parse returns format string, the
\* trimmed value as the only pattern, isValid true exactly when the trimmed
\* value compiles as a regular expression, and no error field, also when
\* isValid is false
C17_ParseOfString ==
    (Parsed /\ StringDetected(fvalue)) =>
        /\ fcall.out.format = "string"
        /\ fcall.out.array = << Stripped(fvalue) >>
        /\ fcall.out.isValid <=> RegExpCompiles(Stripped(fvalue))
        /\ fcall.out.error = NoError

\* the parse of a text that does not compile: isValid false and no error
C17_Witness ==
    /\ Parsed
    /\ fvalue = <<"(">>
    /\ fcall.out.format = "string"
    /\ ~fcall.out.isValid
    /\ fcall.out.error = NoError

\* C18: every parse result has no pattern when its format is empty and
\* exactly one when its format is string; raw is the trimmed input text; an
\* error field is present only when isValid is false
C18_ParseResultShape ==
    Parsed =>
        /\ fcall.out.format = "empty" => Len(fcall.out.array) = 0
        /\ fcall.out.format = "string" => Len(fcall.out.array) = 1
        /\ fcall.out.raw = (IF Absent(fvalue) THEN <<>> ELSE Stripped(fvalue))
        /\ fcall.out.error # NoError => ~fcall.out.isValid

\* the parse of a text with white space at both ends
C18_Witness ==
    /\ Parsed
    /\ fvalue = <<" ", "a", " ">>
    /\ fcall.out.format = "string"
    /\ fcall.out.raw = <<"a">>
    /\ Len(fcall.out.array) = 1

Validated == fcall.op = "validateRegexArray"

\* the result holds a message of the given text for position i (from 0)
FlaggedAs(i, text) ==
    \E k \in 1..Len(fcall.out.errors) :
        /\ fcall.out.errors[k].number = i + 1
        /\ fcall.out.errors[k].text = text

\* the trimmed text at position i (from 0) is the trimmed text at an earlier
\* position
EarlierEqual(p, i) == \E j \in 0..(i - 1) : Stripped(p[j + 1]) = Stripped(p[i + 1])

\* C19 as stated: validatePatternList flags position i as duplicate exactly
\* when the trimmed text at i equals the trimmed text at some earlier
\* position
C19_DuplicateIffEarlierEqual ==
    Validated =>
        \A i \in 0..(Len(fpatterns) - 1) :
            FlaggedAs(i, "Duplicate pattern") <=> EarlierEqual(fpatterns, i)

\* C19 amended: validatePatternList flags position i as duplicate exactly
\* when the trimmed text at i is not empty and equals the trimmed text at
\* some earlier position; the first occurrence of a text is never flagged
C19_DuplicateIffEarlierEqualNonBlank ==
    Validated =>
        \A i \in 0..(Len(fpatterns) - 1) :
            /\ FlaggedAs(i, "Duplicate pattern")
                  <=> (Stripped(fpatterns[i + 1]) # <<>> /\ EarlierEqual(fpatterns, i))
            /\ ~EarlierEqual(fpatterns, i) => ~FlaggedAs(i, "Duplicate pattern")

\* of three patterns with the same trimmed text the second and the third are
\* flagged and the first is not
C19_Witness ==
    /\ Validated
    /\ fpatterns = << <<"a">>, <<"a", " ">>, <<"a">> >>
    /\ ~FlaggedAs(0, "Duplicate pattern")
    /\ FlaggedAs(1, "Duplicate pattern")
    /\ FlaggedAs(2, "Duplicate pattern")

\* C20: validatePatternList returns isValid true exactly when no position
\* has a message, that is exactly when every pattern is non-blank and
\* compiles and no two positions have the same trimmed text
C20_ValidIffClean ==
    Validated =>
        /\ fcall.out.isValid <=> fcall.out.errors = <<>>
        /\ fcall.out.isValid <=>
              /\ \A i \in 1..Len(fpatterns) :
                    /\ Stripped(fpatterns[i]) # <<>>
                    /\ RegExpCompiles(fpatterns[i])
              /\ \A i, j \in 1..Len(fpatterns) :
                    Stripped(fpatterns[i]) = Stripped(fpatterns[j]) => i = j

\* a sequence of three different patterns that compile is valid
C20_Witness ==
    /\ Validated
    /\ fpatterns = << <<"a">>, <<"[", "a", "]">>, <<"[", "\"", "a", "\"", "]">> >>
    /\ fcall.out.isValid
    /\ fcall.out.errors = <<>>

\* the places of the result that hold a message for position i (from 0)
MessagesFor(i) == {k \in 1..Len(fcall.out.errors) : fcall.out.errors[k].number = i + 1}

Unusable(s) == Absent(s) \/ Stripped(s) = <<>> \/ ~RegExpCompiles(s)

\* C22: validatePattern fails exactly when the pattern is empty or white
\* space only or cannot be compiled as a regular expression, succeeds
\* otherwise, and returns for every input (the function of the format model
\* answers with a boolean, the editor's with a message or null)
C22_ValidatePatternTotal ==
    /\ fcall.op = "validateRegexPattern" =>
          /\ fcall.out \in BOOLEAN
          /\ fcall.out = FALSE <=> Unusable(fvalue)
    /\ fcall.op = "validatePattern" =>
          /\ fcall.out \in {NoMsg, "Pattern cannot be empty", "Invalid regex syntax"}
          /\ fcall.out # NoMsg <=> Unusable(fvalue)

\* a text that does not compile is rejected
C22_Witness ==
    /\ fcall.op = "validateRegexPattern"
    /\ fvalue = <<"(">>
    /\ fcall.out = FALSE

Matched == fcall.op = "getMatchingPresetName"

\* the places of the preset mapping whose pattern is x, character for
\* character
EntriesOf(x) == {k \in 1..Len(fcall.presets) : fcall.presets[k].pattern = x}

\* C23: matchSequenceToPresetName returns a name only for a sequence of
\* exactly one element, and then the first name of the mapping whose pattern
\* equals that element exactly, or no match if there is none; for sequences
\* of zero or of two or more elements it returns no match
C23_MatchOnlySingleExact ==
    Matched =>
        /\ Len(fpatterns) # 1 => fcall.out = NoName
        /\ (Len(fpatterns) = 1 /\ EntriesOf(fpatterns[1]) = {}) => fcall.out = NoName
        /\ (Len(fpatterns) = 1 /\ EntriesOf(fpatterns[1]) # {}) =>
              \E k \in EntriesOf(fpatterns[1]) :
                  /\ \A l \in EntriesOf(fpatterns[1]) : k <= l
                  /\ fcall.out = fcall.presets[k].name

\* the element "a" is matched to the second preset when the first preset's
\* pattern has a trailing space
C23_Witness ==
    /\ Matched
    /\ fpatterns = << <<"a">> >>
    /\ Len(fcall.presets) = 2
    /\ fcall.presets[1].pattern = <<"a", " ">>
    /\ fcall.out = "B"

\* C24: a move up of position 0 and a move down of the last position change
\* nothing: the sequence, the error mapping and the editing state stay as
\* they were and onPatternsChange is not called
C24_MovesAtTheEndsAreNoOps ==
    [][(\/ lastOp' = "handleMoveUp" /\ handleMoveUp(0)
        \/ lastOp' = "handleMoveDown" /\ handleMoveDown(Len(regexArray) - 1)) =>
            /\ regexArray' = regexArray
            /\ errors' = errors
            /\ editingIndex' = editingIndex
            /\ editingValue' = editingValue
            /\ notified' = <<>>]_vars

\* a move at an end of a three-pattern sequence has just left it alone
C24_Witness ==
    /\ lastOp \in {"handleMoveUp", "handleMoveDown"}
    /\ notified = <<>>
    /\ Len(regexArray) = 3

\* C25: with the editor Idle, a move down of a position i that is not the
\* last exchanges the elements at i and i + 1 and leaves the other positions
\* and the length alone, a move up of a position i > 0 does so with i and
\* i - 1; afterwards the editor is Idle and onPatternsChange has been called
\* once with the new sequence
C25_MoveExchangesNeighbours ==
    [][/\ (lastOp' = "handleMoveDown" /\ Idle) =>
             \A i \in Positions :
                 (i < Len(regexArray) - 1 /\ handleMoveDown(i)) =>
                     /\ Len(regexArray') = Len(regexArray)
                     /\ regexArray'[i + 1] = regexArray[i + 2]
                     /\ regexArray'[i + 2] = regexArray[i + 1]
                     /\ \A k \in Positions \ {i, i + 1} :
                           regexArray'[k + 1] = regexArray[k + 1]
                     /\ editingIndex' = null
                     /\ notified' = <<regexArray'>>
       /\ (lastOp' = "handleMoveUp" /\ Idle) =>
             \A i \in Positions :
                 (i > 0 /\ handleMoveUp(i)) =>
                     /\ Len(regexArray') = Len(regexArray)
                     /\ regexArray'[i + 1] = regexArray[i]
                     /\ regexArray'[i] = regexArray[i + 1]
                     /\ \A k \in Positions \ {i, i - 1} :
                           regexArray'[k + 1] = regexArray[k + 1]
                     /\ editingIndex' = null
                     /\ notified' = <<regexArray'>>]_vars

\* a move down of position 0 of the two stored patterns has just exchanged
\* them, with the editor Idle
C25_Witness ==
    /\ lastOp = "handleMoveDown"
    /\ Idle
    /\ regexArray = << <<" ", "(">>, <<"(">> >>
    /\ notified = <<regexArray>>

\* C26: an append adds one blank entry at the tail, leaves the existing
\* positions alone, calls onPatternsChange, and leaves the editor in
\* Editing(n), n the length before the append, with empty working text
C26_AppendEditsNewEntry ==
    [][lastOp' = "handleAdd" =>
        /\ Len(regexArray') = Len(regexArray) + 1
        /\ \A k \in Positions : regexArray'[k + 1] = regexArray[k + 1]
        /\ regexArray'[Len(regexArray) + 1] = <<>>
        /\ notified' = <<regexArray'>>
        /\ editingIndex' = Len(regexArray)
        /\ editingValue' = <<>>]_vars

\* an append to the two stored patterns has just put the blank third entry
\* under edit
C26_Witness ==
    /\ lastOp = "handleAdd"
    /\ regexArray = << <<"(">>, <<" ", "(">>, <<>> >>
    /\ editingIndex = 2
    /\ editingValue = <<>>
    /\ notified = <<regexArray>>

\* C27: a remove at position i shortens the sequence by one: the positions
\* before i are unchanged, each position after i moves up by one, and the
\* error mapping is that of the new sequence at its new positions
C27_RemoveShiftsUp ==
    [][lastOp' = "handleRemove" =>
        \A i \in Positions :
            handleRemove(i) =>
                /\ Len(regexArray') = Len(regexArray) - 1
                /\ \A k \in 0..(i - 1) : regexArray'[k + 1] = regexArray[k + 1]
                /\ \A k \in (i + 1)..(Len(regexArray) - 1) :
                      regexArray'[k] = regexArray[k + 1]
                /\ DOMAIN errors' = Flagged(regexArray')
                /\ \A k \in DOMAIN errors' : errors'[k] = newErrorsOf(regexArray')[k]]_vars

\* the remove of the first of three patterns has just left the pattern that
\* does not compile flagged at its new position 0
C27_Witness ==
    /\ lastOp = "handleRemove"
    /\ Len(regexArray) = 2
    /\ regexArray[1] = <<"(">>
    /\ DOMAIN errors = {0}
    /\ errors[0] = "Invalid regex syntax"

AllAvailable ==
    /\ \A i \in Positions \ {editingIndex} :
          /\ ENABLED handleEdit(i)
          /\ ENABLED handleMoveUp(i)
          /\ ENABLED handleMoveDown(i)
          /\ ENABLED handleRemove(i)
          /\ \A name \in DOMAIN PresetMap :
                /\ ENABLED handleApplyPreset(name, i)
                /\ Len(regexArray) < MaxPatterns => ENABLED handleInsertPreset(name, i)
    /\ editingIndex \in Positions =>
          /\ ENABLED handleSaveEdit
          /\ ENABLED handleCancelEdit
    /\ Len(regexArray) < MaxPatterns => ENABLED handleAdd

\* the step leaves the sequence its operation computes from the sequence
\* before it, whatever the error mapping holds
SameEffect ==
    /\ lastOp' = "handleSaveEdit" =>
          regexArray' = ReplacedAt(regexArray, editingIndex, editingValue)
    /\ lastOp' = "handleAdd" => regexArray' = Append(regexArray, <<>>)
    /\ lastOp' = "handleMoveUp" =>
          \E i \in Positions :
              regexArray' = IF i > 0 THEN ExchangedWithNext(regexArray, i - 1)
                            ELSE regexArray
    /\ lastOp' = "handleMoveDown" =>
          \E i \in Positions :
              regexArray' = IF i < Len(regexArray) - 1
                            THEN ExchangedWithNext(regexArray, i)
                            ELSE regexArray
    /\ lastOp' = "handleRemove" =>
          \E i \in Positions : regexArray' = RemovedAt(regexArray, i)
    /\ lastOp' = "handleApplyPreset" =>
          \/ regexArray' = regexArray
          \/ \E name \in UsablePresets :
                \/ regexArray' = <<PresetMap[name]>>
                \/ \E i \in Positions :
                      regexArray' = ReplacedAt(regexArray, i, PresetMap[name])
    /\ lastOp' = "handleInsertPreset" =>
          \/ regexArray' = regexArray
          \/ \E name \in UsablePresets : \E i \in Positions :
                regexArray' = InsertedAfter(regexArray, i, PresetMap[name])
    /\ lastOp' \in {"handleEdit", "setEditingValue", "handleCancelEdit"} =>
          regexArray' = regexArray

\* C30: flagged patterns never block the editor: in every state whose error
\* mapping is not empty every operation is available, each operation has the
\* effect on the sequence it has with an empty error mapping, and no
\* operation leaves an error state
C30_ErrorsNeverBlock ==
    /\ []((EditorMounted /\ ~saving /\ errors # NoErrors) => AllAvailable)
    /\ [][(errors # NoErrors /\ lastOp' \in EditorOps) =>
              /\ SameEffect
              /\ error' = NoMsg
              /\ EditorMounted']_vars

\* a remove has just been made on a sequence with a flagged pattern, and a
\* pattern is still flagged
C30_Witness ==
    /\ lastOp = "handleRemove"
    /\ EditorMounted
    /\ errors # NoErrors
    /\ Len(regexArray) = 2

\* position i (from 0) of p does not compile and repeats the trimmed text of
\* an earlier position
InvalidAndDuplicate(p, i) ==
    /\ Stripped(p[i + 1]) # <<>>
    /\ ~RegExpCompiles(p[i + 1])
    /\ EarlierEqual(p, i)

\* C32: in the editor, when a position both has invalid syntax and
\* duplicates an earlier position, the message stored for it is the
\* duplicate message
C32_DuplicateMessageWins ==
    [][(lastOp' \in EditorOps /\ notified' # <<>>) =>
          \A i \in 0..(Len(regexArray') - 1) :
              InvalidAndDuplicate(regexArray', i) =>
                  /\ i \in DOMAIN errors'
                  /\ errors'[i] = "Duplicate pattern"]_vars

\* after an append to the two stored patterns the second one, which does not
\* compile and repeats the first, carries the duplicate message
C32_Witness ==
    /\ lastOp = "handleAdd"
    /\ regexArray = << <<"(">>, <<" ", "(">>, <<>> >>
    /\ errors[0] = "Invalid regex syntax"
    /\ errors[1] = "Duplicate pattern"

\* C33: the format tag depends on the trimmed input alone: detectFormat(v)
\* is detectFormat(trim(v)), and the format of parse(v) is detectFormat(v)
C33_FormatOfTrimmedInput ==
    Detected =>
        /\ ~Absent(fvalue) => fcall.out = detectRegexFormat(Stripped(fvalue))
        /\ parseRegexValue(fvalue).format = fcall.out

\* an array with white space before it is detected as the array it is
\* without the white space
C33_Witness ==
    /\ Detected
    /\ fvalue = <<" ", "[", "]">>
    /\ fcall.out = "array"
    /\ detectRegexFormat(<<"[", "]">>) = "array"

\* the "Convert to Priority List" button has just been used on a held value
\* in string format
ConvertedString ==
    /\ lastOp = "convertToPriorityList"
    /\ StringDetected(envVars.regex)

\* C34 as stated: converting a stored value in string format to array form
\* yields the one-element sequence of that value, and serializing the
\* sequence yields the stored string exactly
C34_ConvertKeepsStoredString ==
    ConvertedString =>
        /\ regexArray = <<envVars.regex>>
        /\ regexArrayToString(regexArray) = envVars.regex

\* C34 amended: converting a stored value in string format yields the
\* one-element sequence of its trimmed text, and serializing the sequence
\* yields the trimmed text, which is the stored string exactly when that has
\* no white space at its ends
C34_ConvertKeepsTrimmedString ==
    ConvertedString =>
        /\ regexArray = <<Stripped(envVars.regex)>>
        /\ regexArrayToString(regexArray) = Stripped(envVars.regex)
        /\ regexArrayToString(regexArray) = envVars.regex
              <=> envVars.regex = Stripped(envVars.regex)

\* the conversion of a typed value without white space at its ends
C34_Witness ==
    /\ ConvertedString
    /\ envVars.regex = <<"(">>
    /\ regexArray = << <<"(">> >>
    /\ regexArrayToString(regexArray) = envVars.regex

\* C35: whenever the editor has a position i under edit, i is a position of
\* the current sequence
C35_EditingIndexInRange ==
    (EditorMounted /\ editingIndex # null) => editingIndex \in Positions

C37_RefreshOnlyOnChange ==
    [][lastOp' = "silentRefreshEnvVars" =>
          \A data \in ServerData :
              silentRefreshEnvVars(data) =>
                  /\ data = envVars =>
                        /\ envVars' = envVars
                        /\ regexFormat' = regexFormat
                        /\ regexArray' = regexArray
                  /\ data # envVars =>
                        /\ envVars' = data
                        /\ regexFormat' = parseRegexValue(data.regex).format
                        /\ regexArray' = parseRegexValue(data.regex).array]_vars

\* a refresh that fetched the held mapping has just left an edited sequence
\* of one pattern alone
C37_Witness ==
    /\ lastOp = "silentRefreshEnvVars"
    /\ regexFormat = "array"
    /\ Len(regexArray) = 1
    /\ parseRegexValue(envVars.regex).array # regexArray
    /\ detectRegexFormat(envVars.regex) = "array"

\* the number of positions of p that hold x
Occurrences(p, x) == Cardinality({k \in 1..Len(p) : p[k] = x})

\* C40: with the editor Idle and 0 < i < length, a move up of i followed by
\* a move down of i - 1 leaves the sequence it started from, and every move
\* leaves the length and the multiset of the patterns as they were
C40_MovesInvertAndPreserve ==
    [][/\ (lastOp' = "handleMoveUp" /\ Idle) =>
             \A i \in Positions \ {0} :
                 handleMoveUp(i) =>
                     \E before \in {regexArray} :
                         (ENABLED (handleMoveDown(i - 1) /\ regexArray' = before))'
       /\ lastOp' \in {"handleMoveUp", "handleMoveDown"} =>
             /\ Len(regexArray') = Len(regexArray)
             /\ \A k \in Positions :
                   Occurrences(regexArray', regexArray[k + 1])
                       = Occurrences(regexArray, regexArray[k + 1])]_vars

\* a move up of position 2 has just been made on an Idle editor, and the
\* move down of position 1 gives back the sequence it started from
C40_Witness ==
    /\ lastOp = "handleMoveUp"
    /\ Idle
    /\ regexArray = << <<"(">>, <<>>, <<" ", "(">> >>
    /\ notified = <<regexArray>>
    /\ ENABLED (handleMoveDown(1)
                   /\ regexArray' = << <<"(">>, <<" ", "(">>, <<>> >>)

\* a submit is running
Submitting == submitPc # "idle"

\* C39: every submit comes to an end, and at its end saving is false and
\* exactly one of the success message and the error message is set, the
\* error message if and only if the save request failed; whatever the
\* outcome of the reload trigger, the error stays unset and a success
\* message is set
C39_SubmitEndsWithOneMessage ==
    /\ [][/\ (Submitting /\ ~Submitting') =>
                 /\ ~saving'
                 /\ (error' # NoMsg) # (success' # NoMsg)
          /\ lastOp' = "saveResponded" =>
                 \A ok \in BOOLEAN :
                     saveResponded(ok) =>
                         /\ (error' # NoMsg) <=> ~ok
                         /\ Submitting' <=> ok
          /\ lastOp' = "reloadResponded" =>
                 /\ ~Submitting'
                 /\ error' = NoMsg
                 /\ success' # NoMsg]_vars
    /\ Submitting ~> (~Submitting /\ ~saving)

\* a submit has ended whose save succeeded and whose reload trigger threw
C39_Witness ==
    /\ lastOp = "reloadResponded"
    /\ ~Submitting
    /\ ~saving
    /\ success = "saved, connection failed"
    /\ error = NoMsg

\* C38: the countdown is always between 1 and 30; a tick takes one from it
\* and calls no refresh, or, at 1 or below, calls the background refresh
\* once and sets it to 30; with the ticks kept coming the refresh is called
\* again and again unless the cleanup clears the interval
C38_CountdownDrivesRefresh ==
    /\ [](timeUntilRefresh \in 1..RefreshSeconds)
    /\ [][lastOp' = "tick" =>
             IF timeUntilRefresh <= 1
             THEN timeUntilRefresh' = RefreshSeconds /\ refreshCalls' = 1
             ELSE timeUntilRefresh' = timeUntilRefresh - 1 /\ refreshCalls' = 0]_vars
    /\ \/ []<>(lastOp = "tick" /\ refreshCalls = 1)
       \/ <>(refreshIntervalRef = "cleared")

\* the tick at 1 has just called the refresh and set the countdown to 30
C38_Witness ==
    /\ lastOp = "tick"
    /\ refreshCalls = 1
    /\ timeUntilRefresh = RefreshSeconds
    /\ refreshIntervalRef = "running"

\* the ids of the presets whose isDefault is true, in the list held and in
\* every list the server answers with
DefaultIds ==
    {regexPresets[k].id : k \in {j \in Chips : regexPresets[j].isDefault}}
        \cup UNION {{l[k].id : k \in {j \in DOMAIN l : l[j].isDefault}} : l \in PresetLists}

\* the call is an edit request (a save with an existing id) or a delete
EditOrDelete(call) ==
    \/ call.method = "DELETE"
    \/ call.method = "POST" /\ call.existing

\* C31: no edit request and no delete request is issued for a preset whose
\* isDefault is true
C31_DefaultPresetsUntouched ==
    \A k \in 1..Len(presetCalls) :
        EditOrDelete(presetCalls[k]) => presetCalls[k].id \notin DefaultIds

\* an edit request and a delete request for the custom preset are under way
\* while the list holds a default preset
C31_Witness ==
    /\ Len(presetCalls) = 2
    /\ presetCalls[1].method = "POST" /\ presetCalls[1].existing
    /\ presetCalls[1].id = "custom-1"
    /\ presetCalls[2].method = "DELETE"
    /\ presetCalls[2].id = "custom-1"
    /\ \E k \in Chips : regexPresets[k].isDefault

=============================================================================
